---------------------------- MODULE Spec2Model ----------------------------
(***************************************************************************)
(* Model of the p2p video chat (src/src/main.rs): the receive task         *)
(* subscribe_loop, which classifies inbound gossip envelopes and enforces  *)
(* the two-party room, and the render arm of the main select loop, which   *)
(* drains the frame channel that subscribe_loop feeds.                     *)
(***************************************************************************)
EXTENDS Bags, Integers, Sequences, FiniteSets, TLC

(***************************************************************************)
(* Bounds of the model.                                                    *)
(***************************************************************************)
\* number of remote node ids that may appear in envelopes
NumRemote == 3
\* frames the model lets wait on the (unbounded) frame channel
MaxFrameQueue == 1
\* camera resolution in pixels (320x240 or 640x480 in camera.rs), scaled down
CamWidth == 1
CamHeight == 1
\* size of the frames put on the wire (640x480 in main.rs), scaled down
SendWidth == 2
SendHeight == 1
\* ticks of the capture interval the model follows
MaxTicks == 5
\* ticks with a camera that the model of main together with subscribe_loop follows
MaxMainTicks == 2
\* bytes of the longest frame compared by frames_differ
MaxFrameLen == 6
\* longest side, in pixels, of the frames given to reduce_frame_size
MaxSide == 3
\* ticks and keepalives each of the two processes of a room makes
MaxPairTicks == 2
MaxKeepAlives == 1
\* frames the receive task forwards and ticks of the interval, in the model of
\* the select loop
MaxForwarded == 3
MaxSelectTicks == 2
\* lines typed and events received in the model of the chat program
MaxLines == 3
MaxArrivals == 2
\* copies of one envelope on their way to one process; envelopes lost or
\* delivered twice, and keepalives and VideoFrames sent, in a room of three
MaxCopies == 1
MaxFaults == 1
MaxRoomSends == 1
\* show_frame calls on one TerminalDisplay
MaxShows == 3
\* width and height of the frames whose pixels are rendered, and show_frame
\* calls that render them
PictureWidth == 4
PictureHeight == 8
MaxPictures == 1
\* nodes of the longest ticket, and addresses of a node
MaxNodes == 2
MaxAddrs == 1

(***************************************************************************)
(* Node ids, frames and envelopes.                                         *)
(***************************************************************************)
\* endpoint.node_id() of the local process
my_node_id == 0
RemoteIds == 1..NumRemote
NodeIds == {my_node_id} \cup RemoteIds

\* the frames peers send: (frame_data, width, height), the bytes kept abstract
Frames == {<<"black", 640, 480>>, <<"white", 320, 240>>}

\* enum MessageBody
AboutMe(from) == [tag |-> "AboutMe", from |-> from]
VideoFrame(from, frame_data, width, height) ==
    [tag |-> "VideoFrame", from |-> from, frame_data |-> frame_data,
     width |-> width, height |-> height]
RoomFull(from, target) == [tag |-> "RoomFull", from |-> from, target |-> target]
KeepAlive(from) == [tag |-> "KeepAlive", from |-> from]

MessageBody ==
    {AboutMe(f) : f \in NodeIds}
    \cup {VideoFrame(f, fr[1], fr[2], fr[3]) : f \in NodeIds, fr \in Frames}
    \cup {RoomFull(f, t) : f \in NodeIds, t \in NodeIds}
    \cup {KeepAlive(f) : f \in NodeIds}

\* Message::to_vec: the JSON text of an envelope. The nonce is drawn at random
\* by Message::new and read by no receiver, so the wire form keeps the body only.
to_vec(body) == [json |-> TRUE, body |-> body]
\* bytes that are not the JSON text of any Message
Garbage == [json |-> FALSE]
Payloads == {to_vec(b) : b \in MessageBody} \cup {Garbage}

\* Message::from_bytes: Ok(message) for the JSON text of a Message, Err otherwise
from_bytes(content) ==
    IF content.json THEN [ok |-> TRUE, body |-> content.body] ELSE [ok |-> FALSE]

\* what receiver.try_next() can yield: a received message, another gossip event
\* (neighbour up/down, lagged), the end of the stream, or an error
Events ==
    {[type |-> "Received", content |-> c] : c \in Payloads}
    \cup {[type |-> "Other"]}
NoEvent == [type |-> "None"]

VARIABLES
    connected_peers,   \* subscribe_loop: HashSet of admitted peers
    rejected_peers,    \* subscribe_loop: HashSet of peers turned away
    frame_ch,          \* unbounded channel frame_tx -> frame_rx
    display,           \* main: Option<TerminalDisplay>, with its size
    receiver,          \* the receive loop: "open", "ended" (stream over), "failed"
    process,           \* the process: alive, or exited with a status
    event,             \* the event subscribe_loop handled last
    before,            \* the two sets as they were when that event arrived
    broadcasts,        \* sender.broadcast calls made while handling it, with their results
    forwarded          \* frames sent on frame_tx while handling it

\* the receive task, the frame channel and the display
sessionVars == <<connected_peers, rejected_peers, frame_ch, display, receiver, process,
                 event, before, broadcasts, forwarded>>

VARIABLES
    camera,                \* main: Option<CameraCapture>, the struct's fields
    consecutive_failures,  \* CameraCapture: failed captures in a row (health)
    frame_counter,         \* main: u32 tick counter of the capture branch
    last_frame,            \* main: Option<Vec<u8>>, the change gate's baseline
    main_pc,               \* main: "announce", then "loop"; "returned" after an Err
    tick                   \* what the main task did in its last step

\* the main task: start-up, the capture tick and the keepalive task
captureVars == <<camera, consecutive_failures, frame_counter, last_frame, main_pc, tick>>

VARIABLES
    args,                  \* the arguments a function is applied to
    ret                    \* what it returned (Pending before the call)

\* one application of a function of the program
callVars == <<args, ret>>

\* two processes in one room
VARIABLES
    room,                  \* the state of process A and of process B
    net                    \* for each process, the envelopes on their way to it
pairVars == <<room, net>>

\* the select loop of main
VARIABLES
    select,                \* where main is in its loop, and what is in progress
    enqueued,              \* every frame sent on the frame channel so far
    shown                  \* every frame passed to show_frame so far
selectVars == <<select, enqueued, shown>>

\* the chat program (chat.rs)
VARIABLES
    chat,                  \* the input thread, the main task and subscribe_loop
    line_ch,               \* the lines in the channel from the input thread to main
    typed,                 \* every line read from stdin so far
    taken,                 \* every line main has received from the channel so far
    said,                  \* every text broadcast so far
    arrived,               \* every event the gossip receiver has been given so far
    ui                     \* every ui.add_message call so far
chatVars == <<chat, line_ch, typed, taken, said, arrived, ui>>

\* TerminalDisplay (display.rs)
VARIABLES
    disp,                  \* the fields of the TerminalDisplay
    term,                  \* the size of the terminal, as term_size() reads it
    written,               \* what the last show_frame wrote before the rows
    call                   \* the last show_frame call: its number, the size it read
                           \* and whether that was another one than the one stored
screenVars == <<disp, term, written, call>>

\* the variables of the specifications that follow the two-process one
laterVars == <<selectVars, chatVars, screenVars>>

\* what the select loop leaves alone besides the session
notSelect == <<captureVars, callVars, pairVars, chatVars, screenVars>>
\* what the chat program leaves alone
notChat == <<sessionVars, captureVars, callVars, pairVars, selectVars, screenVars>>
\* what a TerminalDisplay leaves alone
notScreen == <<sessionVars, captureVars, callVars, pairVars, selectVars, chatVars>>

vars == <<sessionVars, captureVars, callVars, pairVars, laterVars>>

(***************************************************************************)
(* subscribe_loop: the arms of `match message.body`.  Each arm maps the    *)
(* two sets to what the handler leaves behind: the sets, the envelopes it  *)
(* hands to sender.broadcast (in order), the frames it sends on frame_tx   *)
(* and whether it calls std::process::exit(1); stop tells that the handler *)
(* returned from subscribe_loop instead of going round the loop.           *)
(***************************************************************************)
Effect(conn, rej, out, fwd, exit) ==
    [connected |-> conn, rejected |-> rej, out |-> out, fwd |-> fwd, exit |-> exit,
     stop |-> FALSE]

\* `continue`, or an arm that falls through without touching anything
Skip(conn, rej) == Effect(conn, rej, <<>>, <<>>, FALSE)

\* faulty variant: the capacity test `connected_peers.len() >= 1` off by one
AboutMeArmCapTwo(conn, rej, from) ==
    IF from = my_node_id THEN Skip(conn, rej)
    ELSE IF from \in rej
        THEN Effect(conn, rej, <<RoomFull(my_node_id, from)>>, <<>>, FALSE)
    ELSE IF Cardinality(conn) >= 2
        THEN Effect(conn, rej \cup {from},
                    [i \in 1..3 |-> RoomFull(my_node_id, from)], <<>>, FALSE)
    ELSE Effect(conn \cup {from}, rej, <<>>, <<>>, FALSE)

\* faulty variant: the room-full reply sent once instead of in the `for _ in 0..3` loop
AboutMeArmOneReply(conn, rej, from) ==
    IF from = my_node_id THEN Skip(conn, rej)
    ELSE IF from \in rej
        THEN Effect(conn, rej, <<RoomFull(my_node_id, from)>>, <<>>, FALSE)
    ELSE IF Cardinality(conn) >= 1
        THEN Effect(conn, rej \cup {from}, <<RoomFull(my_node_id, from)>>, <<>>, FALSE)
    ELSE Effect(conn \cup {from}, rej, <<>>, <<>>, FALSE)

\* faulty variant: a rejected peer's AboutMe dropped without a reply
AboutMeArmSilent(conn, rej, from) ==
    IF from = my_node_id THEN Skip(conn, rej)
    ELSE IF from \in rej THEN Skip(conn, rej)
    ELSE IF Cardinality(conn) >= 1
        THEN Effect(conn, rej \cup {from},
                    [i \in 1..3 |-> RoomFull(my_node_id, from)], <<>>, FALSE)
    ELSE Effect(conn \cup {from}, rej, <<>>, <<>>, FALSE)

\* MessageBody::AboutMe { from }
AboutMeArm(conn, rej, from) ==
    IF from = my_node_id THEN Skip(conn, rej)
    ELSE IF from \in rej
        THEN Effect(conn, rej, <<RoomFull(my_node_id, from)>>, <<>>, FALSE)
    ELSE IF Cardinality(conn) >= 1
        THEN Effect(conn, rej \cup {from},
                    [i \in 1..3 |-> RoomFull(my_node_id, from)], <<>>, FALSE)
    ELSE Effect(conn \cup {from}, rej, <<>>, <<>>, FALSE)

\* faulty variant: the `rejected_peers.contains(&from)` test left out
VideoFrameArmNoRejectedTest(conn, rej, from, frame_data, width, height) ==
    IF from = my_node_id THEN Skip(conn, rej)
    ELSE IF from \in conn
        THEN Effect(conn, rej, <<>>, <<<<frame_data, width, height>>>>, FALSE)
    ELSE IF Cardinality(conn) < 1
        THEN Effect(conn \cup {from}, rej, <<>>, <<<<frame_data, width, height>>>>, FALSE)
    ELSE Effect(conn, rej \cup {from}, <<RoomFull(my_node_id, from)>>, <<>>, FALSE)

\* MessageBody::VideoFrame { from, frame_data, width, height }
VideoFrameArm(conn, rej, from, frame_data, width, height) ==
    IF from = my_node_id THEN Skip(conn, rej)
    ELSE IF from \in rej
        THEN Effect(conn, rej, <<RoomFull(my_node_id, from)>>, <<>>, FALSE)
    ELSE IF from \in conn
        THEN Effect(conn, rej, <<>>, <<<<frame_data, width, height>>>>, FALSE)
    ELSE IF Cardinality(conn) < 1
        THEN Effect(conn \cup {from}, rej, <<>>, <<<<frame_data, width, height>>>>, FALSE)
    ELSE Effect(conn, rej \cup {from}, <<RoomFull(my_node_id, from)>>, <<>>, FALSE)

\* faulty variant: the `from != my_node_id` test left out
RoomFullArmNoFromTest(conn, rej, from, target) ==
    IF target = my_node_id
        THEN Effect(conn, rej, <<>>, <<>>, TRUE)
        ELSE Skip(conn, rej)

\* MessageBody::RoomFull { from, target }
RoomFullArm(conn, rej, from, target) ==
    IF from # my_node_id /\ target = my_node_id
        THEN Effect(conn, rej, <<>>, <<>>, TRUE)
        ELSE Skip(conn, rej)

\* faulty variant: the room-capacity test left out of the KeepAlive arm
KeepAliveArmNoCapTest(conn, rej, from) ==
    IF from = my_node_id THEN Skip(conn, rej)
    ELSE IF from \notin rej
        THEN Effect(conn \cup {from}, rej, <<>>, <<>>, FALSE)
    ELSE Skip(conn, rej)

\* faulty variant: the `from == my_node_id` test left out
KeepAliveArmNoSelfTest(conn, rej, from) ==
    IF from \notin rej /\ Cardinality(conn) < 1
        THEN Effect(conn \cup {from}, rej, <<>>, <<>>, FALSE)
    ELSE Skip(conn, rej)

\* MessageBody::KeepAlive { from }
KeepAliveArm(conn, rej, from) ==
    IF from = my_node_id THEN Skip(conn, rej)
    ELSE IF from \notin rej /\ Cardinality(conn) < 1
        THEN Effect(conn \cup {from}, rej, <<>>, <<>>, FALSE)
    ELSE Skip(conn, rej)

\* `match message.body`
MatchBody(conn, rej, body) ==
    CASE body.tag = "AboutMe" -> AboutMeArm(conn, rej, body.from)
      [] body.tag = "VideoFrame" ->
            VideoFrameArm(conn, rej, body.from, body.frame_data, body.width, body.height)
      [] body.tag = "RoomFull" -> RoomFullArm(conn, rej, body.from, body.target)
      [] body.tag = "KeepAlive" -> KeepAliveArm(conn, rej, body.from)

\* faulty variant: a decode error propagated with `?`, which returns from the loop
DecodeErrorArmReturns(conn, rej) == [Skip(conn, rej) EXCEPT !.stop = TRUE]

\* the Err(e) arm of `match Message::from_bytes`: eprintln!, nothing else
DecodeErrorArm(conn, rej) == Skip(conn, rej)

\* the body of `while let Some(event)`: only Event::Received is looked at
HandleEvent(conn, rej, ev) ==
    IF ev.type = "Received"
        THEN IF from_bytes(ev.content).ok
                THEN MatchBody(conn, rej, from_bytes(ev.content).body)
                ELSE DecodeErrorArm(conn, rej)
        ELSE Skip(conn, rej)

(***************************************************************************)
(* Frames as byte sequences, and the two frame functions of main.rs.       *)
(* A Rust index i is the TLA+ index i + 1.                                 *)
(***************************************************************************)
\* a call not made yet, a call that returned v, and a call that panicked
Pending == [pending |-> TRUE]
Returned(v) == [panicked |-> FALSE, value |-> v]
Panicked == [panicked |-> TRUE]

\* u8::abs_diff after `as u16`
abs_diff(a, b) == IF a >= b THEN a - b ELSE b - a

\* frames_differ: the sum over the three channels of the pixel at byte i
pixel_diff(frame1, frame2, i) ==
    abs_diff(frame1[i + 1], frame2[i + 1])
    + abs_diff(frame1[i + 2], frame2[i + 2])
    + abs_diff(frame1[i + 3], frame2[i + 3])

\* frames_differ: the sampling stride chosen from the pixel count
sample_step(total_pixels) ==
    IF total_pixels < 1000 THEN 3 ELSE IF total_pixels < 10000 THEN 9 ELSE 15

\* frames_differ: `for i in (0..frame1.len() - 2).step_by(step)`, from byte i on;
\* early tells that the loop returned true from inside
RECURSIVE scan_pixels(_, _, _, _, _, _, _)
scan_pixels(frame1, frame2, i, step, max_allowed_diff, different_pixels, sampled_pixels) ==
    IF i >= Len(frame1) - 2
        THEN [early |-> FALSE, different_pixels |-> different_pixels,
              sampled_pixels |-> sampled_pixels]
    ELSE IF pixel_diff(frame1, frame2, i) > 45
        THEN IF different_pixels + 1 > max_allowed_diff
                THEN [early |-> TRUE]
                ELSE scan_pixels(frame1, frame2, i + step, step, max_allowed_diff,
                                 different_pixels + 1, sampled_pixels + 1)
    ELSE scan_pixels(frame1, frame2, i + step, step, max_allowed_diff,
                     different_pixels, sampled_pixels + 1)

\* faulty variant: a channel difference taken as frame1 - frame2, saturating at 0
frames_differ_one_sided(frame1, frame2, threshold_percent) ==
    IF Len(frame1) # Len(frame2) \/ Len(frame1) = 0 THEN Returned(TRUE)
    ELSE IF Len(frame1) = 1 THEN Panicked
    ELSE LET n == Len(frame1) \div 3
             sat(a, b) == IF a >= b THEN a - b ELSE 0
             changed == {k \in 0..(n - 1) :
                            sat(frame1[3 * k + 1], frame2[3 * k + 1])
                            + sat(frame1[3 * k + 2], frame2[3 * k + 2])
                            + sat(frame1[3 * k + 3], frame2[3 * k + 3]) > 45}
         IN  Returned(n = 0 \/ Cardinality(changed) * 100 > threshold_percent * n)

\* faulty variant: the last test taken as `change_percent >= threshold_percent`
frames_differ_at_threshold(frame1, frame2, threshold_percent) ==
    IF Len(frame1) # Len(frame2) \/ Len(frame1) = 0 THEN Returned(TRUE)
    ELSE IF Len(frame1) = 1 THEN Panicked
    ELSE LET total_pixels == Len(frame1) \div 3
             step == sample_step(total_pixels)
             max_allowed_diff ==
                 (total_pixels * threshold_percent) \div (100 * (step \div 3))
             scan == scan_pixels(frame1, frame2, 0, step, max_allowed_diff, 0, 0)
         IN  IF scan.early THEN Returned(TRUE)
             ELSE LET change_percent ==
                          IF scan.sampled_pixels > 0
                              THEN (scan.different_pixels * 100) \div scan.sampled_pixels
                              ELSE 100
                  IN  Returned(change_percent >= threshold_percent)

\* fn frames_differ(frame1: &[u8], frame2: &[u8], threshold_percent: u8) -> bool.
\* With one byte `frame1.len() - 2` underflows: a debug build panics there, a
\* release build wraps and panics on the index frame1[1].
frames_differ(frame1, frame2, threshold_percent) ==
    IF Len(frame1) # Len(frame2) \/ Len(frame1) = 0 THEN Returned(TRUE)
    ELSE IF Len(frame1) = 1 THEN Panicked
    ELSE LET total_pixels == Len(frame1) \div 3
             step == sample_step(total_pixels)
             max_allowed_diff ==
                 (total_pixels * threshold_percent) \div (100 * (step \div 3))
             scan == scan_pixels(frame1, frame2, 0, step, max_allowed_diff, 0, 0)
         IN  IF scan.early THEN Returned(TRUE)
             ELSE LET change_percent ==
                          IF scan.sampled_pixels > 0
                              THEN (scan.different_pixels * 100) \div scan.sampled_pixels
                              ELSE 100
                  IN  Returned(change_percent > threshold_percent)

\* `n * 3` in u32, for 0 <= n < 2^31, computed on 16-bit halves: overflowed
\* tells that n * 3 >= 2^32 (a build with overflow checks panics there), and
\* high * 2^16 + low is the wrapped product every other build goes on with
u32_times_3(n) ==
    LET low3 == (n % 65536) * 3
        high3 == (n \div 65536) * 3 + (low3 \div 65536)
    IN  [overflowed |-> high3 >= 65536, high |-> high3 % 65536, low |-> low3 % 65536]

\* reduce_frame_size: `idx + 2 < frame.len()` in usize, for a frame shorter
\* than 2^31 bytes
index_in_frame(idx, len) ==
    idx.high < 32768 /\ idx.high * 65536 + idx.low + 2 < len

\* reduce_frame_size: `((x as f32 / new as f32) * orig as f32) as u32`, then
\* `.min(orig - 1)`: the source coordinate of destination coordinate x.
\* (x / new) * orig is taken exactly; the f32 result is the same for the sizes
\* used here, where x / new and its product with orig round to the exact value.
source_coord(x, new, orig) ==
    LET scaled == (x * orig) \div new
    IN  IF scaled < orig - 1 THEN scaled ELSE orig - 1

\* reduce_frame_size: `((orig_y * orig_w + orig_x) * 3) as usize` for the
\* destination pixel p = y * new_w + x; orig_y * orig_w + orig_x is below
\* orig_w * orig_h, which is below 2^31 for every size used here
source_index(p, orig_w, orig_h, new_w, new_h) ==
    u32_times_3(source_coord(p \div new_w, new_h, orig_h) * orig_w
                + source_coord(p % new_w, new_w, orig_w))

\* the closure reduce_frame_size(frame, orig_w, orig_h, new_w, new_h):
\* nearest-neighbour sampling, row by row; a pixel outside the frame is black.
\* bytes is the vector built when no multiplication is checked for overflow.
reduce_frame_size(frame, orig_w, orig_h, new_w, new_h) ==
    LET idx(p) == source_index(p, orig_w, orig_h, new_w, new_h)
    IN  [bytes |-> [k \in 1..(new_w * new_h * 3) |->
                       LET i == idx((k - 1) \div 3)
                       IN  IF index_in_frame(i, Len(frame))
                               THEN frame[i.high * 65536 + i.low + 1 + ((k - 1) % 3)]
                               ELSE 0],
         overflowed |-> \E p \in 0..(new_w * new_h - 1) : idx(p).overflowed]

\* the closure create_error_frame, for a frame of width x height pixels: a white
\* disc of radius 50 on a red checkerboard of 40-pixel squares
error_frame(width, height) ==
    [k \in 1..(width * height * 3) |->
        LET p == (k - 1) \div 3
            c == (k - 1) % 3
            x == p % width
            y == p \div width
            dx == abs_diff(x, width \div 2)
            dy == abs_diff(y, height \div 2)
        IN  IF dx * dx + dy * dy < 50 * 50 THEN 255
            ELSE IF (x \div 40) % 2 = (y \div 40) % 2
                THEN <<180, 40, 40>>[c + 1]
                ELSE <<120, 20, 20>>[c + 1]]

(***************************************************************************)
(* camera.rs: CameraCapture.  The camera record keeps frame_skip_counter   *)
(* and last_successful_frame; buffer is rewritten before every return and  *)
(* is what get_frame returns.                                              *)
(***************************************************************************)
\* Option<CameraCapture> and Option<Vec<u8>>: None, Some
NoCamera == [present |-> FALSE]
NoFrame == [some |-> FALSE]
SomeFrame(bytes) == [some |-> TRUE, bytes |-> bytes]

\* what one device read (camera.frame() and decode_image) can give:
\* the decoded bytes, an error whose text names the hardware, or another error
ReadOk(data) == [ok |-> TRUE, data |-> data]
ReadErr(hardware) == [ok |-> FALSE, hardware |-> hardware]

\* get_frame's result: Ok(&self.buffer) or Err(e)
FrameOk(bytes) == [ok |-> TRUE, frame |-> bytes]
FrameErr == [ok |-> FALSE]

\* CameraCapture after try_create_camera
NewCamera == [present |-> TRUE, frame_skip_counter |-> 0, last_successful_frame |-> NoFrame]

\* get_frame after `attempts` failed reads, reads[attempts + 1] being what the
\* next self.try_get_frame() gives; reads tells how many reads were made
RECURSIVE get_frame_loop(_, _, _)
get_frame_loop(cam, reads, attempts) ==
    LET read == reads[attempts + 1]
        skipped == cam.frame_skip_counter + 1
        backup == cam.last_successful_frame
        done(c, result) == [camera |-> c, result |-> result, reads |-> attempts + 1]
    IN  IF read.ok
            THEN done([cam EXCEPT !.last_successful_frame = SomeFrame(read.data)],
                      FrameOk(read.data))
        ELSE IF read.hardware /\ skipped < 3 /\ backup.some
            THEN done([cam EXCEPT !.frame_skip_counter = skipped], FrameOk(backup.bytes))
        ELSE LET after == IF ~read.hardware THEN cam
                          ELSE [cam EXCEPT !.frame_skip_counter =
                                               IF skipped < 3 THEN skipped ELSE 0]
             IN  IF attempts + 1 >= 3
                     THEN IF backup.some THEN done(after, FrameOk(backup.bytes))
                          ELSE IF ~read.hardware THEN done(after, FrameErr)
                          ELSE done(after, FrameOk([k \in 1..(CamWidth * CamHeight * 3) |-> 0]))
                     ELSE get_frame_loop(after, reads, attempts + 1)

\* pub fn get_frame(&mut self) -> Result<&[u8]>, the device answering reads[1],
\* reads[2], reads[3] to the attempts the call makes
get_frame(cam, reads) == get_frame_loop(cam, reads, 0)

\* the consecutive-failure count after a call that made the first n of reads:
\* every failed read adds one, a successful read (always the last) resets it
count_failures(failures, reads, n) ==
    IF reads[n].ok THEN 0 ELSE failures + n

\* faulty variant: health lost at the fifth consecutive failure already
is_healthy_below_five(failures) == failures < 5

\* pub fn is_healthy(&self) -> bool
is_healthy(failures) == failures <= 5

(***************************************************************************)
(* Initial state: main has subscribed, spawned subscribe_loop with two     *)
(* empty sets and created the frame channel; no display exists yet.        *)
(***************************************************************************)
NoDisplay == [made |-> FALSE]
Alive == [alive |-> TRUE]
Exited(status) == [alive |-> FALSE, status |-> status]
NoSets == [connected |-> {}, rejected |-> {}]
NoTick == [kind |-> "None"]

\* main is in its select loop, without a camera, and has not ticked yet
MainRunning ==
    /\ camera = NoCamera
    /\ consecutive_failures = 0
    /\ frame_counter = 0
    /\ last_frame = NoFrame
    /\ main_pc = "loop"
    /\ tick = NoTick

\* no function application is being looked at
NoCall == args = <<>> /\ ret = Pending

\* no second process is being looked at
NoPair == room = <<>> /\ net = <<>>

\* no select loop is being looked at
NoSelect == select = <<>> /\ enqueued = <<>> /\ shown = <<>>

\* no chat program is being looked at
NoChat ==
    /\ chat = <<>> /\ line_ch = <<>> /\ typed = <<>> /\ taken = <<>>
    /\ said = <<>> /\ arrived = <<>> /\ ui = <<>>

\* no TerminalDisplay is being looked at
NoScreen == disp = <<>> /\ term = <<>> /\ written = <<>> /\ call = <<>>

\* none of the later specifications is being looked at
NoLater == NoSelect /\ NoChat /\ NoScreen

Init ==
    /\ connected_peers = {}
    /\ rejected_peers = {}
    /\ frame_ch = <<>>
    /\ display = NoDisplay
    /\ receiver = "open"
    /\ process = Alive
    /\ event = NoEvent
    /\ before = NoSets
    /\ broadcasts = <<>>
    /\ forwarded = <<>>
    /\ MainRunning
    /\ NoCall
    /\ NoPair
    /\ NoLater

(***************************************************************************)
(* subscribe_loop takes one event off the receiver and handles it.  Every  *)
(* sender.broadcast may fail; the result is discarded (`let _ =`).         *)
(***************************************************************************)
Receive(ev) ==
    /\ process.alive
    /\ receiver = "open"
    /\ \E eff \in {HandleEvent(connected_peers, rejected_peers, ev)} :
       /\ Len(frame_ch) + Len(eff.fwd) <= MaxFrameQueue
       /\ \E oks \in [1..Len(eff.out) -> BOOLEAN] :
             broadcasts' = [i \in 1..Len(eff.out) |-> [msg |-> eff.out[i], ok |-> oks[i]]]
       /\ connected_peers' = eff.connected
       /\ rejected_peers' = eff.rejected
       /\ frame_ch' = frame_ch \o eff.fwd
       /\ forwarded' = eff.fwd
       /\ process' = IF eff.exit THEN Exited(1) ELSE process
       /\ receiver' = IF eff.stop THEN "failed" ELSE receiver
       /\ event' = ev
       /\ before' = [connected |-> connected_peers, rejected |-> rejected_peers]
    /\ UNCHANGED <<display, captureVars, callVars, pairVars, laterVars>>

\* receiver.try_next() yields None: the while loop ends and the task returns Ok(())
StreamEnds ==
    /\ process.alive
    /\ receiver = "open"
    /\ receiver' = "ended"
    /\ event' = [type |-> "End"]
    /\ before' = [connected |-> connected_peers, rejected |-> rejected_peers]
    /\ broadcasts' = <<>>
    /\ forwarded' = <<>>
    /\ UNCHANGED <<connected_peers, rejected_peers, frame_ch, display, process,
                   captureVars, callVars, pairVars, laterVars>>

\* receiver.try_next() yields Err: `?` returns it from the task
StreamFails ==
    /\ process.alive
    /\ receiver = "open"
    /\ receiver' = "failed"
    /\ event' = [type |-> "Error"]
    /\ before' = [connected |-> connected_peers, rejected |-> rejected_peers]
    /\ broadcasts' = <<>>
    /\ forwarded' = <<>>
    /\ UNCHANGED <<connected_peers, rejected_peers, frame_ch, display, process,
                   captureVars, callVars, pairVars, laterVars>>

(***************************************************************************)
(* main: the frame_rx arm of the select loop takes one frame off the       *)
(* channel, builds the display from the first frame's size and shows it.   *)
(***************************************************************************)
RenderFrame ==
    /\ process.alive
    /\ frame_ch # <<>>
    /\ display' = IF display.made
                    THEN display
                    ELSE [made |-> TRUE, width |-> Head(frame_ch)[2],
                          height |-> Head(frame_ch)[3]]
    /\ frame_ch' = Tail(frame_ch)
    /\ UNCHANGED <<connected_peers, rejected_peers, receiver, process,
                   event, before, broadcasts, forwarded, captureVars,
                   callVars, pairVars, laterVars>>

Next ==
    \/ \E ev \in Events : Receive(ev)
    \/ StreamEnds
    \/ StreamFails
    \/ RenderFrame

Spec == Init /\ [][Next]_vars

(***************************************************************************)
(* main: the interval.tick() arm of the select loop, with a camera.        *)
(* tick records what the arm did: whether the camera was healthy when the  *)
(* tick came, whether get_frame was called, the device reads it made, its  *)
(* result, and, as they were before the call, the backup frame, the count  *)
(* of consecutive failures and the count of hardware-transient failures in *)
(* a row.  event is NoEvent after a step of main.                          *)
(***************************************************************************)
\* levels of the frames the device delivers: uniform frames of one level each
\* (0 and 10 differ by less than frames_differ's 45 per pixel, 200 by more)
Levels == {0, 10, 200}
RawFrames ==
    {[k \in 1..(CamWidth * CamHeight * 3) |-> v] : v \in Levels}
    \cup {[k \in 1..(CamWidth * CamHeight * 3 - 1) |-> 0]}
ReadOutcomes == {ReadOk(f) : f \in RawFrames} \cup {ReadErr(h) : h \in BOOLEAN}
\* what the device answers to the three attempts of one get_frame call; the
\* answers after a successful read are never asked for and repeat it
ReadSeqs ==
    {reads \in [1..3 -> ReadOutcomes] : \A i \in 1..2 : reads[i].ok => reads[i + 1] = reads[i]}

\* faulty variant: the camera read on every tick whatever its health
should_capture_every_tick(healthy, counter) == TRUE

\* `let should_capture = if cam.is_healthy() { true } else { frame_counter % 2 == 0 }`
should_capture(healthy, counter) ==
    IF healthy THEN TRUE ELSE counter % 2 = 0

\* faulty variant: a failed send returned from the task, as `?` does
discard_returns(ok) == ~ok

\* `let _ = sender.broadcast(..).await`: whether the task returns on the result
discard(ok) == FALSE

\* `sender.broadcast(..).await?`: whether main returns on the result
question_mark(ok) == ~ok

\* hardware-transient failed reads in a row, after a call that made the first n
\* of reads, run being their number before the call
transient_run_after(run, reads, n) ==
    IF reads[n].ok \/ ~reads[n].hardware THEN 0
    ELSE IF \A i \in 1..n : ~reads[i].ok /\ reads[i].hardware THEN run + n
    ELSE Cardinality({i \in 1..n : \A j \in i..n : ~reads[j].ok /\ reads[j].hardware})

\* the VideoFrame envelope main builds around a frame
OwnFrame(frame_data) == VideoFrame(my_node_id, frame_data, SendWidth, SendHeight)

\* (the values of the arm are bound by \E over one-element sets)
CaptureTick(reads, ok) ==
    /\ process.alive
    /\ main_pc = "loop"
    /\ camera.present
    /\ frame_counter < MaxTicks
    /\ \E called \in {should_capture(is_healthy(consecutive_failures), frame_counter + 1)} :
       \E got \in {IF called THEN get_frame(camera, reads)
                             ELSE [camera |-> camera, result |-> FrameErr, reads |-> 0]} :
       \E fits \in {got.result.ok /\ Len(got.result.frame) >= CamWidth * CamHeight * 3} :
       \E reduced \in {IF called /\ fits
                          THEN reduce_frame_size(got.result.frame, CamWidth, CamHeight,
                                                 SendWidth, SendHeight).bytes
                          ELSE <<>>} :
       \E should_send \in {IF called /\ fits /\ last_frame.some
                              THEN frames_differ(reduced, last_frame.bytes, 1)
                              ELSE Returned(TRUE)} :
       LET sends == called /\ fits /\ ~should_send.panicked /\ should_send.value
           fails == called /\ ~got.result.ok
           run == IF tick.kind # "Capture" THEN 0
                  ELSE IF ~tick.called THEN tick.transient_run
                  ELSE transient_run_after(tick.transient_run, tick.reads, Len(tick.reads))
       IN
        \* one step for each course of the tick: answers that are not asked for,
        \* and the result of a send that is not made, are held fixed
        /\ IF called THEN \A i \in (got.reads + 1)..3 : reads[i] = reads[got.reads]
                     ELSE \A i \in 1..3 : reads[i] = ReadErr(FALSE)
        /\ sends \/ fails \/ ok
        /\ frame_counter' = frame_counter + 1
        /\ camera' = got.camera
        /\ consecutive_failures' =
               IF called THEN count_failures(consecutive_failures, reads, got.reads)
               ELSE consecutive_failures
        /\ broadcasts' =
               IF fails
                   THEN <<[msg |-> OwnFrame(error_frame(SendWidth, SendHeight)), ok |-> ok]>>
               ELSE IF sends THEN <<[msg |-> OwnFrame(reduced), ok |-> ok]>>
               ELSE <<>>
        /\ last_frame' = IF sends THEN SomeFrame(reduced) ELSE last_frame
        /\ process' = IF called /\ fits /\ should_send.panicked THEN Exited(101)
                      ELSE IF (sends \/ fails) /\ discard(ok) THEN Exited(1)
                      ELSE process
        /\ tick' = [kind |-> "Capture", healthy |-> is_healthy(consecutive_failures),
                    called |-> called,
                    reads |-> IF called THEN SubSeq(reads, 1, got.reads) ELSE <<>>,
                    result |-> IF called THEN got.result ELSE FrameErr,
                    backup |-> camera.last_successful_frame,
                    failures |-> consecutive_failures,
                    transient_run |-> run]
        /\ event' = NoEvent
        /\ before' = NoSets
        /\ forwarded' = <<>>
        /\ UNCHANGED <<connected_peers, rejected_peers, frame_ch, display, receiver,
                       main_pc, callVars, pairVars, laterVars>>

\* main holds a camera and has entered its select loop; the receive task is
\* left aside
InitCapture ==
    /\ connected_peers = {}
    /\ rejected_peers = {}
    /\ frame_ch = <<>>
    /\ display = NoDisplay
    /\ receiver = "open"
    /\ process = Alive
    /\ event = NoEvent
    /\ before = NoSets
    /\ broadcasts = <<>>
    /\ forwarded = <<>>
    /\ camera = NewCamera
    /\ consecutive_failures = 0
    /\ frame_counter = 0
    /\ last_frame = NoFrame
    /\ main_pc = "loop"
    /\ tick = NoTick
    /\ NoCall
    /\ NoPair
    /\ NoLater

NextCapture ==
    \E reads \in ReadSeqs, ok \in BOOLEAN : CaptureTick(reads, ok)

SpecCapture == InitCapture /\ [][NextCapture]_vars

(***************************************************************************)
(* main from the announcement on: the AboutMe broadcast, the keepalive     *)
(* task, the tick arm without a camera, and the tasks above.  In this      *)
(* specification the device answers every read and a few envelopes arrive. *)
(***************************************************************************)
\* `sender.broadcast(AboutMe {from}).await?`, then the spawns and the loop
Announce(ok) ==
    /\ process.alive
    /\ main_pc = "announce"
    /\ broadcasts' = <<[msg |-> AboutMe(my_node_id), ok |-> ok]>>
    /\ process' = IF question_mark(ok) THEN Exited(1) ELSE process
    /\ main_pc' = IF question_mark(ok) THEN main_pc ELSE "loop"
    /\ tick' = [kind |-> "Announce"]
    /\ event' = NoEvent
    /\ before' = NoSets
    /\ forwarded' = <<>>
    /\ UNCHANGED <<connected_peers, rejected_peers, frame_ch, display, receiver,
                   camera, consecutive_failures, frame_counter, last_frame,
                   callVars, pairVars, laterVars>>

\* the keepalive task: one turn of its loop
KeepAliveTick(ok) ==
    /\ process.alive
    /\ main_pc = "loop"
    /\ broadcasts' = <<[msg |-> KeepAlive(my_node_id), ok |-> ok]>>
    /\ tick' = [kind |-> "KeepAlive"]
    /\ event' = NoEvent
    /\ before' = NoSets
    /\ forwarded' = <<>>
    /\ UNCHANGED <<connected_peers, rejected_peers, frame_ch, display, receiver, process,
                   camera, consecutive_failures, frame_counter, last_frame, main_pc,
                   callVars, pairVars, laterVars>>

\* the tick arm when camera is None: the frame of create_error_frame, sent if
\* it differs from last_frame
PlaceholderTick(ok) ==
    /\ process.alive
    /\ main_pc = "loop"
    /\ ~camera.present
    /\ \E frame_data \in {error_frame(SendWidth, SendHeight)} :
       \E should_send \in {IF last_frame.some
                              THEN frames_differ(frame_data, last_frame.bytes, 5)
                              ELSE Returned(TRUE)} :
       LET sends == ~should_send.panicked /\ should_send.value IN
        /\ sends \/ ok
        /\ broadcasts' = IF sends THEN <<[msg |-> OwnFrame(frame_data), ok |-> ok]>>
                         ELSE <<>>
        /\ last_frame' = IF sends THEN SomeFrame(frame_data) ELSE last_frame
        /\ process' = IF should_send.panicked THEN Exited(101)
                      ELSE IF sends /\ discard(ok) THEN Exited(1)
                      ELSE process
        /\ tick' = [kind |-> "Placeholder", compared |-> last_frame.some,
                    last |-> last_frame, sent |-> sends]
    /\ event' = NoEvent
    /\ before' = NoSets
    /\ forwarded' = <<>>
    /\ UNCHANGED <<connected_peers, rejected_peers, frame_ch, display, receiver,
                   camera, consecutive_failures, frame_counter, main_pc,
                   callVars, pairVars, laterVars>>

\* subscribe_loop, spawned after the announcement
SessionReceive(ev) == main_pc = "loop" /\ Receive(ev)

\* the envelopes of two peers that arrive in this specification
MainEvents ==
    {[type |-> "Received", content |-> to_vec(b)] :
        b \in {AboutMe(1), AboutMe(2)}
              \cup {VideoFrame(1, fr[1], fr[2], fr[3]) : fr \in Frames}}

\* CameraCapture::new() has failed or not; the AboutMe broadcast comes next
InitMain ==
    /\ connected_peers = {}
    /\ rejected_peers = {}
    /\ frame_ch = <<>>
    /\ display = NoDisplay
    /\ receiver = "open"
    /\ process = Alive
    /\ event = NoEvent
    /\ before = NoSets
    /\ broadcasts = <<>>
    /\ forwarded = <<>>
    /\ camera \in {NoCamera, NewCamera}
    /\ consecutive_failures = 0
    /\ frame_counter = 0
    /\ last_frame = NoFrame
    /\ main_pc = "announce"
    /\ tick = NoTick
    /\ NoCall
    /\ NoPair
    /\ NoLater

NextMain ==
    \/ \E ok \in BOOLEAN : Announce(ok)
    \/ \E ok \in BOOLEAN : KeepAliveTick(ok)
    \/ \E ok \in BOOLEAN : PlaceholderTick(ok)
    \/ /\ frame_counter < MaxMainTicks
       /\ \E f \in RawFrames, ok \in BOOLEAN : CaptureTick([i \in 1..3 |-> ReadOk(f)], ok)
    \/ \E ev \in MainEvents : SessionReceive(ev)
    \/ RenderFrame

SpecMain == InitMain /\ [][NextMain]_vars

(***************************************************************************)
(* Vocabulary of the properties: the message handled last, its sender and  *)
(* what subscribe_loop did with it.                                        *)
(***************************************************************************)
WellFormed == event.type = "Received" /\ event.content.json
Malformed == event.type = "Received" /\ ~event.content.json
Body == event.content.body
Handled(tag) == WellFormed /\ Body.tag = tag
Sender == Body.from
SetsUnchanged ==
    connected_peers = before.connected /\ rejected_peers = before.rejected
\* the sender was neither self, nor Connected, nor Rejected when the message came
SenderWasUnknown ==
    /\ Sender # my_node_id
    /\ Sender \notin before.connected
    /\ Sender \notin before.rejected
RoomWasFull == before.connected # {}
\* the envelopes handed to sender.broadcast, in order, whatever came of the send
Emitted == [i \in 1..Len(broadcasts) |-> broadcasts[i].msg]
RoomFullTimes(n, target) == [i \in 1..n |-> RoomFull(my_node_id, target)]
TheFrame == <<Body.frame_data, Body.width, Body.height>>

(***************************************************************************)
(* C1..C10: room admission in subscribe_loop.                              *)
(***************************************************************************)

\* C1: whatever envelopes have been received, from whichever peers and in
\* whatever order, the set of Connected peers holds at most one peer id.
C1_AtMostOneConnected == Cardinality(connected_peers) <= 1

\* C1 witness: one peer is Connected and two others knocked and were turned away.
C1_Witness ==
    Cardinality(connected_peers) = 1 /\ Cardinality(rejected_peers \ connected_peers) >= 2

\* C2: Rejected is terminal. A peer that is Rejected stays Rejected, is not
\* added to the Connected set afterwards, and a VideoFrame it sends later is
\* not sent on the frame channel.
C2_RejectedTerminal ==
    /\ before.rejected \subseteq rejected_peers
    /\ \A p \in before.rejected : p \in connected_peers => p \in before.connected
    /\ (Handled("VideoFrame") /\ Sender \in before.rejected) => forwarded = <<>>

\* C2 witness: a VideoFrame of an already Rejected peer has been handled.
C2_Witness ==
    /\ Handled("VideoFrame")
    /\ Sender \in before.rejected
    /\ Sender \in rejected_peers
    /\ frame_ch = <<>>

\* C3 as stated: an Unknown peer that sends AboutMe or VideoFrame while the room
\* is full becomes Rejected and exactly three RoomFull{from: self, target: peer}
\* are emitted, for either message type.
C3_ThreeRepliesEitherType ==
    ((Handled("AboutMe") \/ Handled("VideoFrame")) /\ SenderWasUnknown /\ RoomWasFull)
        => (Sender \in rejected_peers /\ Emitted = RoomFullTimes(3, Sender))

\* C3 amended: such a peer becomes Rejected; its AboutMe is answered with exactly
\* three RoomFull{from: self, target: peer}, its VideoFrame with exactly one.
C3_RepliesByType ==
    ((Handled("AboutMe") \/ Handled("VideoFrame")) /\ SenderWasUnknown /\ RoomWasFull)
        => /\ Sender \in rejected_peers
           /\ connected_peers = before.connected
           /\ Emitted = RoomFullTimes(IF Body.tag = "AboutMe" THEN 3 ELSE 1, Sender)

\* C3 witness: with one peer Connected and another already turned away, a third
\* peer's AboutMe has been answered with three RoomFull.
C3_Witness ==
    /\ Handled("AboutMe") /\ SenderWasUnknown /\ RoomWasFull
    /\ before.rejected # {}
    /\ Len(broadcasts) = 3

\* C4: with no peer Connected, the first AboutMe, VideoFrame or KeepAlive of a
\* peer that is neither self nor Rejected makes it Connected (a KeepAlive alone
\* is enough); a KeepAlive of an Unknown peer while the room is full changes no
\* membership and emits no RoomFull.
C4_FirstMessageAdmits ==
    /\ ( /\ Handled("AboutMe") \/ Handled("VideoFrame") \/ Handled("KeepAlive")
         /\ Sender # my_node_id
         /\ Sender \notin before.rejected
         /\ before.connected = {} )
        => (connected_peers = {Sender} /\ rejected_peers = before.rejected)
    /\ (Handled("KeepAlive") /\ SenderWasUnknown /\ RoomWasFull)
        => (SetsUnchanged /\ broadcasts = <<>>)

\* C4 witness: a KeepAlive was the first message of a peer and admitted it.
C4_Witness ==
    /\ Handled("KeepAlive")
    /\ before.connected = {}
    /\ connected_peers = {Sender}

\* C5 as stated: any further message (AboutMe, VideoFrame or KeepAlive) of a
\* Rejected peer is answered with a RoomFull targeted at it, and the peer does
\* not enter Connected.
C5_AnyMessageRejectedAgain ==
    ( /\ Handled("AboutMe") \/ Handled("VideoFrame") \/ Handled("KeepAlive")
      /\ Sender \in before.rejected )
        => /\ \E i \in 1..Len(Emitted) : Emitted[i] = RoomFull(my_node_id, Sender)
           /\ connected_peers = before.connected

\* C5 amended: a further AboutMe or VideoFrame of a Rejected peer is answered
\* with exactly one RoomFull targeted at it, a further KeepAlive with nothing;
\* in all three cases the peer stays Rejected and the Connected set is unchanged.
C5_RejectedAgainByType ==
    ( /\ Handled("AboutMe") \/ Handled("VideoFrame") \/ Handled("KeepAlive")
      /\ Sender \in before.rejected )
        => /\ Emitted = RoomFullTimes(IF Body.tag = "KeepAlive" THEN 0 ELSE 1, Sender)
           /\ SetsUnchanged
           /\ forwarded = <<>>

\* C5 witness: a Rejected peer's AboutMe has been answered with one RoomFull.
C5_Witness ==
    /\ Handled("AboutMe")
    /\ Sender \in before.rejected
    /\ Len(broadcasts) = 1

\* C6 as stated: a RoomFull whose target is the local node id ends the process
\* with status 1; a RoomFull with any other target leaves it running and the
\* two sets unchanged.
C6_TargetedRoomFullExits ==
    Handled("RoomFull") =>
        IF Body.target = my_node_id
            THEN process = Exited(1)
            ELSE process.alive /\ SetsUnchanged

\* C6 amended: a RoomFull whose target is the local node id and whose sender is
\* not the local node id ends the process with status 1; every other RoomFull
\* leaves it running and the two sets unchanged.
C6_ForeignTargetedRoomFullExits ==
    Handled("RoomFull") =>
        IF Body.target = my_node_id /\ Body.from # my_node_id
            THEN process = Exited(1)
            ELSE process.alive /\ SetsUnchanged /\ broadcasts = <<>>

\* C6 witness: the process has exited on a peer's RoomFull, a peer being Connected.
C6_Witness ==
    /\ Handled("RoomFull")
    /\ process = Exited(1)
    /\ connected_peers # {}

\* C7: an envelope whose sender id is the local node id is ignored: the two sets
\* are unchanged, nothing is broadcast, no frame is forwarded, the process lives.
C7_SelfEnvelopesIgnored ==
    (WellFormed /\ Sender = my_node_id)
        => /\ SetsUnchanged
           /\ broadcasts = <<>>
           /\ forwarded = <<>>
           /\ process.alive
           /\ receiver = "open"

\* C7 witness: the local KeepAlive came back from the substrate before any
\* peer was Connected, and the room is still empty.
C7_Witness ==
    /\ Handled("KeepAlive")
    /\ Sender = my_node_id
    /\ before.connected = {}
    /\ connected_peers = {}

\* C8: a peer that has become Connected is Connected in every later state, and
\* neither Unknown nor Rejected, whatever it or other peers send.
C8_ConnectedNeverDemoted ==
    /\ before.connected \subseteq connected_peers
    /\ \A p \in connected_peers : p \notin rejected_peers

\* C9: a VideoFrame is sent on the frame channel, with its frame_data, width and
\* height, exactly when its sender is the Connected peer once the message has
\* been handled; frames of self, of Rejected peers and of peers turned away are
\* not; a KeepAlive of the Connected peer changes no state.
C9_ForwardedIffConnected ==
    /\ Handled("VideoFrame") =>
          /\ forwarded = IF Sender \in connected_peers THEN <<TheFrame>> ELSE <<>>
          /\ (Sender = my_node_id \/ Sender \in rejected_peers) => forwarded = <<>>
    /\ (Handled("KeepAlive") /\ Sender \in before.connected)
          => (SetsUnchanged /\ broadcasts = <<>> /\ forwarded = <<>>)

\* C10: a malformed envelope is skipped: the two sets are unchanged, no RoomFull
\* is emitted, nothing is forwarded and the loop and the process keep running,
\* so what later messages meet is the state the malformed one found.
C10_MalformedSkipped ==
    Malformed
        => /\ SetsUnchanged
           /\ broadcasts = <<>>
           /\ forwarded = <<>>
           /\ receiver = "open"
           /\ process.alive

\* C10 witness: a malformed envelope arrived with a peer Connected and one Rejected.
C10_Witness ==
    /\ Malformed
    /\ connected_peers # {} /\ rejected_peers # {}

(***************************************************************************)
(* Vocabulary of the capture properties: the tick main handled last.       *)
(***************************************************************************)
\* the last step was a tick with a camera, and it called get_frame
Captured == tick.kind = "Capture" /\ tick.called
\* the last device read of that call
LastRead == tick.reads[Len(tick.reads)]
\* the first device read of that call failed with a hardware-transient error
FirstReadTransient == ~tick.reads[1].ok /\ tick.reads[1].hardware

(***************************************************************************)
(* C12: is_healthy() is true before any capture; it is false exactly when  *)
(* more than 5 capture attempts in a row have failed, of whatever kind;    *)
(* every failed attempt adds one to the count and a successful capture     *)
(* puts the count back to 0, which makes is_healthy() true again.          *)
(***************************************************************************)
C12_HealthFollowsFailures ==
    /\ tick = NoTick => is_healthy(consecutive_failures)
    /\ is_healthy(consecutive_failures) <=> ~(consecutive_failures > 5)
    /\ Captured =>
          IF LastRead.ok
              THEN consecutive_failures = 0 /\ is_healthy(consecutive_failures)
              ELSE consecutive_failures = tick.failures + Len(tick.reads)

\* an unhealthy camera was read with success: the count is 0 again
C12_Witness ==
    Captured /\ ~tick.healthy /\ LastRead.ok /\ consecutive_failures = 0

(***************************************************************************)
(* C13: when a backup frame exists and a get_frame call's device read      *)
(* fails with a hardware-transient error, fewer than 3 such failures being *)
(* consecutive, the call returns Ok with the bytes of the backup and       *)
(* leaves the backup as it was.                                            *)
(***************************************************************************)
C13_TransientFailureServesBackup ==
    (Captured /\ tick.backup.some /\ FirstReadTransient /\ tick.transient_run + 1 < 3)
        => /\ tick.result = FrameOk(tick.backup.bytes)
           /\ camera.last_successful_frame = tick.backup

(***************************************************************************)
(* C20: a tick with a camera calls get_frame if the camera is healthy;     *)
(* if it is unhealthy, the tick calls get_frame exactly when frame_counter *)
(* is even, that is on every other tick; once health is back every tick    *)
(* calls it again.                                                         *)
(***************************************************************************)
C20_CaptureRateFollowsHealth ==
    tick.kind = "Capture" =>
        (tick.called <=> (tick.healthy \/ frame_counter % 2 = 0))

\* an unhealthy camera left alone on an odd tick, after having been read on
\* the even tick before
C20_Witness ==
    /\ tick.kind = "Capture" /\ ~tick.healthy /\ ~tick.called
    /\ frame_counter % 2 = 1 /\ consecutive_failures > 6

(***************************************************************************)
(* Vocabulary of the send properties.  After a step of main or of the      *)
(* keepalive task event is NoEvent and tick tells which step it was; after *)
(* a step of subscribe_loop event is what it handled.  broadcasts holds    *)
(* the sends of the last such step.                                        *)
(***************************************************************************)
SendFailed == \E i \in 1..Len(broadcasts) : ~broadcasts[i].ok
StepOfMain(kinds) == event = NoEvent /\ tick.kind \in kinds
StepOfReceiver == event # NoEvent

C19_SessionGoesOnWithoutCamera ==
    ~camera.present =>
        /\ main_pc = "loop" => process.alive
        /\ tick.kind # "Capture"
        /\ StepOfMain({"Placeholder"}) =>
              /\ tick.sent <=> (~tick.compared \/
                                  frames_differ(error_frame(SendWidth, SendHeight),
                                                tick.last.bytes, 5).value)
              /\ tick.sent =>
                    Emitted = <<OwnFrame(error_frame(SendWidth, SendHeight))>>
              /\ ~tick.sent => Emitted = <<>>
        /\ (Handled("VideoFrame") /\ Sender \in before.connected)
              => /\ forwarded = <<TheFrame>>
                 /\ frame_ch # <<>> \/ display.made

(***************************************************************************)
(* frames_differ applied to pairs of short frames.  args holds the two     *)
(* frames and the threshold, ret what the call gave.                       *)
(***************************************************************************)
\* the session and the capture loop, left aside while a function is applied
NoSession ==
    /\ connected_peers = {}
    /\ rejected_peers = {}
    /\ frame_ch = <<>>
    /\ display = NoDisplay
    /\ receiver = "open"
    /\ process = Alive
    /\ event = NoEvent
    /\ before = NoSets
    /\ broadcasts = <<>>
    /\ forwarded = <<>>
    /\ MainRunning

Idle == NoSession /\ NoPair /\ NoLater

\* the frames compared: every byte sequence of up to MaxFrameLen bytes over
\* two byte values that differ by more than 45 on a pixel
ByteLevels == {0, 100}
TestFrames == UNION {[1..n -> ByteLevels] : n \in 0..MaxFrameLen}
\* threshold_percent: u8
Thresholds == {0, 1, 5, 50, 255}

InitDiffer ==
    /\ Idle
    /\ args \in TestFrames \X TestFrames \X Thresholds
    /\ ret = Pending

CallFramesDiffer ==
    /\ ret = Pending
    /\ ret' = frames_differ(args[1], args[2], args[3])
    /\ UNCHANGED <<sessionVars, captureVars, args, pairVars, laterVars>>

SpecDiffer == InitDiffer /\ [][CallFramesDiffer]_vars

(***************************************************************************)
(* C14 as stated: frames_differ(a, a, t) is false for every frame a, the   *)
(* empty frame and the frames of fewer than 3 bytes included.              *)
(***************************************************************************)
C14_NeverDiffersFromItself ==
    (ret # Pending /\ args[1] = args[2]) => ret = Returned(FALSE)

(***************************************************************************)
(* C14, amended: frames_differ(a, a, t) is false for every frame a of at   *)
(* least 3 bytes and every threshold t.                                    *)
(***************************************************************************)
C14_PixelFrameNeverDiffersFromItself ==
    (ret # Pending /\ args[1] = args[2] /\ Len(args[1]) >= 3) => ret = Returned(FALSE)

\* a frame of two pixels compared with itself at threshold 0
C14_Witness ==
    /\ ret = Returned(FALSE)
    /\ args[1] = args[2] /\ Len(args[1]) = 6 /\ args[3] = 0

(***************************************************************************)
(* C15: frames_differ(a, b, t) and frames_differ(b, a, t) give the same    *)
(* answer, or both panic, for all frames a, b and every threshold t.       *)
(***************************************************************************)
C15_Symmetric ==
    ret # Pending => ret = frames_differ(args[2], args[1], args[3])

\* two frames of the same length, the first darker on one pixel, found different
C15_Witness ==
    /\ ret = Returned(TRUE)
    /\ Len(args[1]) = 6 /\ Len(args[2]) = 6
    /\ \A k \in 1..3 : args[1][k] < args[2][k]
    /\ \A k \in 4..6 : args[1][k] = args[2][k]

(***************************************************************************)
(* reduce_frame_size applied to source frames of every length up to one    *)
(* byte more than the largest size asks for, and to one size whose byte    *)
(* index does not fit in u32.  args holds the frame and the four sizes.    *)
(***************************************************************************)
\* the frame of n bytes whose k-th byte is k
SourceFrames == {[k \in 1..n |-> k] : n \in 0..(MaxSide * MaxSide * 3 + 1)}
Sides == 1..MaxSide
\* orig_w, orig_h, new_w, new_h with (orig_h - 1) * orig_w * 3 >= 2^32
HugeSizes == {<<2 ^ 29, 4, 1, 4>>}

InitReduce ==
    /\ Idle
    /\ args \in {<<f, ow, oh, nw, nh>> :
                    f \in SourceFrames, ow \in Sides, oh \in Sides, nw \in Sides, nh \in Sides}
                \cup {<<f, h[1], h[2], h[3], h[4]>> : f \in SourceFrames, h \in HugeSizes}
    /\ ret = Pending

\* one call; overflow_checks tells whether the build checks u32 arithmetic
\* (the default of a debug build), in which case an overflow panics
CallReduce(overflow_checks) ==
    /\ ret = Pending
    /\ \E reduced \in {reduce_frame_size(args[1], args[2], args[3], args[4], args[5])} :
          ret' = IF reduced.overflowed /\ overflow_checks THEN Panicked
                 ELSE Returned(reduced.bytes)
    /\ UNCHANGED <<sessionVars, captureVars, args, pairVars, laterVars>>

NextReduce == \E overflow_checks \in BOOLEAN : CallReduce(overflow_checks)

SpecReduce == InitReduce /\ [][NextReduce]_vars

\* the three bytes of pixel p of a frame
PixelOf(frame, p) == <<frame[3 * p + 1], frame[3 * p + 2], frame[3 * p + 3]>>
\* pixel is black, or is a whole pixel lying inside frame
BlackOrFromSource(pixel, frame) ==
    \/ pixel = <<0, 0, 0>>
    \/ \E q \in 0..((Len(frame) \div 3) - 1) : pixel = PixelOf(frame, q)

(***************************************************************************)
(* C16: for all positive sizes and a source frame of any length,           *)
(* reduce_frame_size returns, and what it returns has exactly              *)
(* new_w * new_h * 3 bytes, every pixel of which is black or a pixel read  *)
(* inside the source frame.                                                *)
(***************************************************************************)
C16_ExactSizeWithinSource ==
    ret # Pending =>
        /\ ~ret.panicked
        /\ Len(ret.value) = args[4] * args[5] * 3
        /\ \A p \in 0..(args[4] * args[5] - 1) :
              BlackOrFromSource(PixelOf(ret.value, p), args[1])

(***************************************************************************)
(* Ticket: its postcard bytes (Ticket::to_bytes, from_bytes) and its text  *)
(* form (Display, FromStr).  postcard writes the fields in order: a byte   *)
(* array as its bytes, an integer and a Vec's length as a LEB128 varint,   *)
(* an enum as the varint of its variant followed by its fields.            *)
(***************************************************************************)
Ok(value) == [ok |-> TRUE, value |-> value]
Err == [ok |-> FALSE]

\* bytes of a TopicId and of a NodeId
IdLen == 32

\* faulty variant: only the low seven bits of an integer written
varint_one_byte(n) == <<n % 128>>

\* postcard: an unsigned integer, seven bits a byte, low bits first, the top
\* bit of a byte telling that more follow
RECURSIVE varint(_)
varint(n) == IF n < 128 THEN <<n>> ELSE <<128 + (n % 128)>> \o varint(n \div 128)

\* serde's SocketAddr: variant 0 (V4) or 1 (V6), the ip octets, the port as u16
addr_bytes(addr) == varint(IF addr.v6 THEN 1 ELSE 0) \o addr.ip \o varint(addr.port)

\* a Vec: the varint of its length, then its elements, each written by item(_)
seq_bytes(items, item(_)) ==
    LET RECURSIVE elems(_)
        elems(i) == IF i > Len(items) THEN <<>> ELSE item(items[i]) \o elems(i + 1)
    IN  varint(Len(items)) \o elems(1)

\* CompactNodeInfo {node_id, direct_addresses}
node_bytes(node) == node.node_id \o seq_bytes(node.direct_addresses, addr_bytes)

\* fn to_bytes(&self) -> Vec<u8>: postcard::to_allocvec of Ticket {topic, nodes}
to_bytes(ticket) == ticket.topic \o seq_bytes(ticket.nodes, node_bytes)

\* Reading: every reader takes the bytes and the position to read at, and gives
\* the value with the position after it, or fails.
At(value, pos) == [ok |-> TRUE, value |-> value, pos |-> pos]

read_array(bytes, pos, n) ==
    IF pos + n - 1 <= Len(bytes) THEN At(SubSeq(bytes, pos, pos + n - 1), pos + n) ELSE Err

\* a varint of at most max bytes whose value is at most limit
RECURSIVE read_varint_from(_, _, _, _, _, _)
read_varint_from(bytes, pos, max, limit, unit, sum) ==
    IF pos > Len(bytes) \/ max = 0 THEN Err
    ELSE LET byte == bytes[pos]
             total == sum + (byte % 128) * unit
         IN  IF total > limit THEN Err
             ELSE IF byte < 128 THEN At(total, pos + 1)
             ELSE read_varint_from(bytes, pos + 1, max - 1, limit, unit * 128, total)

read_varint(bytes, pos, max, limit) == read_varint_from(bytes, pos, max, limit, 1, 0)

read_addr(bytes, pos) ==
    LET variant == read_varint(bytes, pos, 5, 1)
        ip == read_array(bytes, variant.pos, IF variant.value = 1 THEN 16 ELSE 4)
        port == read_varint(bytes, ip.pos, 3, 65535)
    IN  IF ~variant.ok THEN Err
        ELSE IF ~ip.ok THEN Err
        ELSE IF ~port.ok THEN Err
        ELSE At([v6 |-> variant.value = 1, ip |-> ip.value, port |-> port.value], port.pos)

\* a Vec's length: a varint; no Vec of the ticket is longer than the bytes left
read_len(bytes, pos) == read_varint(bytes, pos, 10, Len(bytes))

\* the next n addresses of a Vec<SocketAddr>
RECURSIVE read_addrs(_, _, _)
read_addrs(bytes, pos, n) ==
    IF n = 0 THEN At(<<>>, pos)
    ELSE LET first == read_addr(bytes, pos)
             others == read_addrs(bytes, first.pos, n - 1)
         IN  IF ~first.ok THEN Err
             ELSE IF ~others.ok THEN Err
             ELSE At(<<first.value>> \o others.value, others.pos)

read_node(bytes, pos) ==
    LET node_id == read_array(bytes, pos, IdLen)
        len == read_len(bytes, node_id.pos)
        direct_addresses == read_addrs(bytes, len.pos, len.value)
    IN  IF ~node_id.ok THEN Err
        ELSE IF ~len.ok THEN Err
        ELSE IF ~direct_addresses.ok THEN Err
        ELSE At([node_id |-> node_id.value, direct_addresses |-> direct_addresses.value],
                direct_addresses.pos)

\* the next n nodes of a Vec<CompactNodeInfo>
RECURSIVE read_nodes(_, _, _)
read_nodes(bytes, pos, n) ==
    IF n = 0 THEN At(<<>>, pos)
    ELSE LET first == read_node(bytes, pos)
             others == read_nodes(bytes, first.pos, n - 1)
         IN  IF ~first.ok THEN Err
             ELSE IF ~others.ok THEN Err
             ELSE At(<<first.value>> \o others.value, others.pos)

\* fn from_bytes(bytes: &[u8]) -> Result<Self>: postcard::from_bytes
ticket_from_bytes(bytes) ==
    LET topic == read_array(bytes, 1, IdLen)
        len == read_len(bytes, topic.pos)
        nodes == read_nodes(bytes, len.pos, len.value)
    IN  IF ~topic.ok THEN Err
        ELSE IF ~len.ok THEN Err
        ELSE IF ~nodes.ok THEN Err
        ELSE Ok([topic |-> topic.value, nodes |-> nodes.value])

\* data_encoding::BASE64URL_NOPAD: the 64 characters, by the six bits they stand for
Alphabet ==
    <<"A", "B", "C", "D", "E", "F", "G", "H", "I", "J", "K", "L", "M", "N", "O", "P",
       "Q", "R", "S", "T", "U", "V", "W", "X", "Y", "Z", "a", "b", "c", "d", "e", "f",
       "g", "h", "i", "j", "k", "l", "m", "n", "o", "p", "q", "r", "s", "t", "u", "v",
       "w", "x", "y", "z", "0", "1", "2", "3", "4", "5", "6", "7", "8", "9", "-", "_">>

\* the six-bit groups of a byte sequence, the last one filled with zero bits:
\* every three bytes give four groups
sextets(bytes) ==
    [i \in 1..((Len(bytes) * 4 + 2) \div 3) |->
        LET at(k) == IF k <= Len(bytes) THEN bytes[k] ELSE 0
            b1 == at(3 * ((i - 1) \div 4) + 1)
            b2 == at(3 * ((i - 1) \div 4) + 2)
            b3 == at(3 * ((i - 1) \div 4) + 3)
        IN  CASE (i - 1) % 4 = 0 -> b1 \div 4
              [] (i - 1) % 4 = 1 -> (b1 % 4) * 16 + b2 \div 16
              [] (i - 1) % 4 = 2 -> (b2 % 16) * 4 + b3 \div 64
              [] (i - 1) % 4 = 3 -> b3 % 64]

\* BASE64URL_NOPAD.encode
letters(six) == [i \in 1..Len(six) |-> Alphabet[six[i] + 1]]
encode(bytes) == letters(sextets(bytes))

\* the bytes of a sequence of six-bit groups whose length is not 1 modulo 4:
\* every four groups give three bytes
octets(six) ==
    [i \in 1..((Len(six) * 3) \div 4) |->
        LET s1 == six[4 * ((i - 1) \div 3) + 1]
            s2 == six[4 * ((i - 1) \div 3) + 2]
            s3 == six[4 * ((i - 1) \div 3) + 3]
            s4 == six[4 * ((i - 1) \div 3) + 4]
        IN  CASE (i - 1) % 3 = 0 -> s1 * 4 + s2 \div 16
              [] (i - 1) % 3 = 1 -> (s2 % 16) * 16 + s3 \div 4
              [] (i - 1) % 3 = 2 -> (s3 % 4) * 64 + s4]

\* BASE64URL_NOPAD.decode: fails on a character outside the alphabet, on a
\* length of 1 modulo 4 and on bits set in the filling of the last group
decode(text) ==
    IF \E i \in 1..Len(text) : \A c \in 1..64 : Alphabet[c] # text[i] THEN Err
    ELSE LET six == [i \in 1..Len(text) |-> (CHOOSE c \in 1..64 : Alphabet[c] = text[i]) - 1]
             n == Len(six)
         IN  IF n % 4 = 1 THEN Err
             ELSE IF n % 4 = 2 /\ six[n] % 16 # 0 THEN Err
             ELSE IF n % 4 = 3 /\ six[n] % 4 # 0 THEN Err
             ELSE Ok(octets(six))

\* impl fmt::Display for Ticket
to_string(ticket) == encode(to_bytes(ticket))

\* impl FromStr for Ticket
from_str(text) ==
    LET bytes == decode(text)
    IN  IF ~bytes.ok THEN Err ELSE ticket_from_bytes(bytes.value)

(***************************************************************************)
(* The text form of a ticket, then the ticket parsed from that text.       *)
(* args holds the ticket, ret the text and, once parsed, the result.       *)
(***************************************************************************)
\* two ids, and two addresses whose ports take two and three bytes
TestIds == {[k \in 1..IdLen |-> 0], [k \in 1..IdLen |-> IF k = 1 THEN 7 ELSE 255]}
TestAddrs ==
    {[v6 |-> FALSE, ip |-> <<10, 0, 0, 255>>, port |-> 8080],
     [v6 |-> TRUE, ip |-> [k \in 1..16 |-> IF k = 16 THEN 1 ELSE 0], port |-> 65535]}
TestNodes ==
    {[node_id |-> id, direct_addresses |-> addrs] :
        id \in TestIds, addrs \in UNION {[1..n -> TestAddrs] : n \in 0..MaxAddrs}}
Tickets ==
    {[topic |-> id, nodes |-> nodes] :
        id \in TestIds, nodes \in UNION {[1..n -> TestNodes] : n \in 0..MaxNodes}}

InitTicket ==
    /\ Idle
    /\ args \in {<<t>> : t \in Tickets}
    /\ ret = Pending

\* ticket.to_string()
FormatTicket ==
    /\ ret = Pending
    /\ ret' = [text |-> to_string(args[1]), parsed |-> Pending]
    /\ UNCHANGED <<sessionVars, captureVars, args, pairVars, laterVars>>

\* text.parse::<Ticket>()
ParseTicket ==
    /\ ret # Pending
    /\ ret.parsed = Pending
    /\ ret' = [ret EXCEPT !.parsed = from_str(ret.text)]
    /\ UNCHANGED <<sessionVars, captureVars, args, pairVars, laterVars>>

NextTicket == FormatTicket \/ ParseTicket

SpecTicket == InitTicket /\ [][NextTicket]_vars

\* the text of the ticket has been parsed
Parsed == ret # Pending /\ ret.parsed # Pending

(***************************************************************************)
(* C17: parsing the text that Display gives for a ticket succeeds and      *)
(* yields a ticket with the same topic and the same nodes, in the same     *)
(* order, each with the same node_id and the same direct_addresses.        *)
(***************************************************************************)
C17_TicketRoundTrip ==
    Parsed =>
        /\ ret.parsed.ok
        /\ ret.parsed.value.topic = args[1].topic
        /\ ret.parsed.value.nodes = args[1].nodes

\* a ticket of two different nodes, one with an IPv6 address, parsed back
C17_Witness ==
    /\ Parsed /\ ret.parsed.ok
    /\ Len(args[1].nodes) = 2
    /\ args[1].nodes[1] # args[1].nodes[2]
    /\ \E i \in 1..2 : \E a \in 1..Len(args[1].nodes[i].direct_addresses) :
          args[1].nodes[i].direct_addresses[a].v6

(***************************************************************************)
(* Two processes in one room: A has opened it, B has joined with A's       *)
(* ticket, and subscribe_and_join has returned in both, so that each is    *)
(* the other's only neighbour.  Every broadcast succeeds and reaches the   *)
(* other process once, in any order.  Each process names itself            *)
(* my_node_id and the other process peer_id; an envelope changes names on  *)
(* its way.  Each process runs the tasks modelled above: the announcement, *)
(* the tick arm with a camera whose reads succeed, the keepalive task,     *)
(* subscribe_loop and the render arm.                                      *)
(***************************************************************************)
Processes == {"A", "B"}
Other(n) == IF n = "A" THEN "B" ELSE "A"
peer_id == 1

\* an envelope as the process that receives it reads it
Renamed(id) == IF id = my_node_id THEN peer_id ELSE my_node_id
Arriving(body) ==
    IF body.tag = "RoomFull"
        THEN [body EXCEPT !.from = Renamed(@), !.target = Renamed(@)]
        ELSE [body EXCEPT !.from = Renamed(@)]

\* main before its AboutMe broadcast; first_frame is the size of the first
\* VideoFrame that subscribe_loop has taken off the receiver
NewProcess ==
    [connected_peers |-> {}, rejected_peers |-> {}, frame_ch |-> <<>>,
     display |-> NoDisplay, process |-> Alive, main_pc |-> "announce",
     last_frame |-> NoFrame, ticks |-> 0, keepalives |-> 0, first_frame |-> NoFrame,
     displays |-> 0]

\* the frames a process puts on the wire: captured frames, reduced
SentFrames ==
    {reduce_frame_size([k \in 1..(CamWidth * CamHeight * 3) |-> v],
                       CamWidth, CamHeight, SendWidth, SendHeight).bytes : v \in {0, 200}}

\* the envelopes of a sequence of broadcasts, as the other process reads them
InFlight(bodies) ==
    LET arriving == {Arriving(bodies[i]) : i \in DOMAIN bodies}
    IN  [b \in arriving |-> Cardinality({i \in DOMAIN bodies : Arriving(bodies[i]) = b})]

\* sender.broadcast(..) of process n: the envelopes join those on their way
\* to the other process
Broadcast(n, bodies) ==
    net' = [net EXCEPT ![Other(n)] = @ (+) InFlight(bodies)]

PairAnnounce(n) ==
    /\ room[n].process.alive
    /\ room[n].main_pc = "announce"
    /\ Broadcast(n, <<AboutMe(my_node_id)>>)
    /\ room' = [room EXCEPT ![n].main_pc = "loop"]
    /\ UNCHANGED <<sessionVars, captureVars, callVars, laterVars>>

PairKeepAlive(n) ==
    /\ room[n].process.alive
    /\ room[n].main_pc = "loop"
    /\ room[n].keepalives < MaxKeepAlives
    /\ Broadcast(n, <<KeepAlive(my_node_id)>>)
    /\ room' = [room EXCEPT ![n].keepalives = @ + 1]
    /\ UNCHANGED <<sessionVars, captureVars, callVars, laterVars>>

\* the tick arm: the reduced frame is sent if it differs from last_frame
PairTick(n, reduced) ==
    LET last == room[n].last_frame
        should_send == IF last.some THEN frames_differ(reduced, last.bytes, 1).value
                       ELSE TRUE
    IN  /\ room[n].process.alive
        /\ room[n].main_pc = "loop"
        /\ room[n].ticks < MaxPairTicks
        /\ Broadcast(n, IF should_send THEN <<OwnFrame(reduced)>> ELSE <<>>)
        /\ room' = [room EXCEPT ![n].ticks = @ + 1,
                                ![n].last_frame = IF should_send THEN SomeFrame(reduced)
                                                  ELSE @]
        /\ UNCHANGED <<sessionVars, captureVars, callVars, laterVars>>

\* subscribe_loop of process n handles one of the envelopes on their way to
\* it: the envelopes reach it in any order
PairReceive(n, body) ==
    /\ room[n].process.alive
    /\ room[n].main_pc = "loop"
    /\ BagIn(body, net[n])
    /\ LET eff == HandleEvent(room[n].connected_peers, room[n].rejected_peers,
                              [type |-> "Received", content |-> to_vec(body)])
       IN  /\ net' = [net EXCEPT
                         ![n] = @ (-) SetToBag({body}),
                         ![Other(n)] = @ (+) InFlight(eff.out)]
           /\ room' = [room EXCEPT
                          ![n].connected_peers = eff.connected,
                          ![n].rejected_peers = eff.rejected,
                          ![n].frame_ch = @ \o eff.fwd,
                          ![n].process = IF eff.exit THEN Exited(1) ELSE @,
                          ![n].first_frame =
                              IF body.tag = "VideoFrame" /\ ~@.some
                                  THEN [some |-> TRUE, width |-> body.width,
                                        height |-> body.height]
                                  ELSE @]
    /\ UNCHANGED <<sessionVars, captureVars, callVars, laterVars>>

\* the frame_rx arm of process n; displays counts the calls of VideoDisplay::new
PairRender(n) ==
    /\ room[n].process.alive
    /\ room[n].frame_ch # <<>>
    /\ room' = [room EXCEPT
                   ![n].display = IF @.made THEN @
                                  ELSE [made |-> TRUE, width |-> Head(room[n].frame_ch)[2],
                                        height |-> Head(room[n].frame_ch)[3]],
                   ![n].displays = IF room[n].display.made THEN @ ELSE @ + 1,
                   ![n].frame_ch = Tail(@)]
    /\ UNCHANGED <<sessionVars, captureVars, callVars, net, laterVars>>

InitPair ==
    /\ NoSession
    /\ NoCall
    /\ NoLater
    /\ room = [n \in Processes |-> NewProcess]
    /\ net = [n \in Processes |-> EmptyBag]

NextPair ==
    \E n \in Processes :
        \/ PairAnnounce(n)
        \/ PairKeepAlive(n)
        \/ \E reduced \in SentFrames : PairTick(n, reduced)
        \/ \E body \in BagToSet(net[n]) : PairReceive(n, body)
        \/ PairRender(n)

\* every task of both processes is scheduled again and again
FairPair ==
    \A n \in Processes :
        /\ WF_vars(PairAnnounce(n))
        /\ WF_vars(\E reduced \in SentFrames : PairTick(n, reduced))
        /\ WF_vars(\E body \in BagToSet(net[n]) : PairReceive(n, body))
        /\ WF_vars(PairRender(n))

SpecPair == InitPair /\ [][NextPair]_vars /\ FairPair

\* process n holds the other process as Connected
HoldsPeer(n) ==
    /\ room # <<>>
    /\ room[n].connected_peers = {peer_id}
    /\ room[n].rejected_peers = {}

\* C18: when A has opened a room and B has joined it, with every task
\* scheduled fairly and no envelope lost, A and B come to hold each other as
\* Connected and stay so, neither process exits, and B constructs its display
\* exactly once: from the first frame it receives from A, with that frame's
\* width and height.
C18_TwoPartySession ==
    /\ <>[](HoldsPeer("A") /\ HoldsPeer("B"))
    /\ [](room["A"].process.alive /\ room["B"].process.alive)
    /\ <>(room["B"].displays = 1)
    /\ [](room["B"].displays <= 1)
    /\ [](room["B"].displays = 0 /\ room["B"].first_frame.some
            => room["B"].frame_ch # <<>>)
    /\ [](room["B"].display.made
            => /\ room["B"].first_frame.some
               /\ room["B"].display.width = room["B"].first_frame.width
               /\ room["B"].display.height = room["B"].first_frame.height)

(***************************************************************************)
(* frames_differ on frames of the first and of the second sampling tier:   *)
(* a dark frame compared with a frame of the same length whose first       *)
(* sampled pixels are bright.                                              *)
(***************************************************************************)
\* pixels of the small frames, and of a frame that is sampled with step 9
MaxSmallPixels == 4
TierPixels == 1048
TierThresholds == Thresholds \cup 0..3

\* the bytes at which frames_differ looks at a pixel of a frame of len bytes
sampled_at(len) ==
    {i \in 0..(len - 3) : i % sample_step(len \div 3) = 0}

\* frames_differ: max_allowed_diff for frames of n pixels
max_allowed(n, t) == (n * t) \div (100 * (sample_step(n) \div 3))

DarkFrame(pixels) == [b \in 1..(3 * pixels) |-> 0]
\* bright from its first byte up to the k-th sampled pixel
LitFrame(pixels, k) ==
    [b \in 1..(3 * pixels) |-> IF b <= k * sample_step(pixels) THEN 100 ELSE 0]

\* every small pair; of the pairs of TierPixels pixels those with one, two or
\* three bright pixels more than max_allowed_diff, on which the loop returns
\* from inside after that many steps
InitTiers ==
    /\ Idle
    /\ args \in {<<DarkFrame(n), LitFrame(n, k), t>> :
                    n \in 1..MaxSmallPixels, k \in 0..MaxSmallPixels, t \in TierThresholds}
                \cup {<<DarkFrame(TierPixels),
                       LitFrame(TierPixels, max_allowed(TierPixels, t) + k), t>> :
                         k \in 1..3, t \in 0..3}
    /\ ret = Pending

SpecTiers == InitTiers /\ [][CallFramesDiffer]_vars

\* the sampled pixels of the two frames compared whose channel differences
\* sum to more than 45
ChangedSamples ==
    {i \in sampled_at(Len(args[1])) : pixel_diff(args[1], args[2], i) > 45}

(***************************************************************************)
(* C21: for two frames of equal length holding at least one pixel,         *)
(* frames_differ returns true exactly when the sampled pixels that changed *)
(* are more than threshold_percent percent of the sampled pixels, also     *)
(* when it returns from inside the loop.                                   *)
(***************************************************************************)
C21_TrueExactlyAboveThreshold ==
    (ret # Pending /\ Len(args[1]) = Len(args[2]) /\ Len(args[1]) >= 3) =>
        ret = Returned(Cardinality(ChangedSamples) * 100
                          > args[3] * Cardinality(sampled_at(Len(args[1]))))

(***************************************************************************)
(* The select loop of main (main.rs 416-513) step by step.  select.pc is   *)
(* the place of the main task: "wait" in tokio::select!, "tick" in the     *)
(* body of the interval arm, "send" awaiting its broadcast, "new_display"  *)
(* asleep after TerminalDisplay::new, "show" before show_frame.            *)
(* subscribe_loop is another task: it forwards frames and ends the process *)
(* at any of these places.                                                 *)
(***************************************************************************)
\* faulty variant: the arms start whenever their future is ready
select_ready_anywhere(sel) == TRUE

\* `loop { tokio::select! { .. } }`: the futures of the arms are polled only
\* when the body of the arm chosen before has run to its end
select_ready(sel) == sel.pc = "wait"

\* faulty variant: the newest frame is taken and the older ones are dropped
recv_latest(ch) == [item |-> ch[Len(ch)], rest |-> <<>>]

\* frame_rx.recv() on a channel that holds a frame
recv(ch) == [item |-> Head(ch), rest |-> Tail(ch)]

\* main in its loop: the camera is streaming, no display is made, and the
\* terminal does or does not take colour
InSelect ==
    {[pc |-> "wait", capturing |-> FALSE, rendering |-> FALSE, ticks |-> 0, held |-> <<>>,
      supports_color |-> color, cursor |-> "shown", cursor_show |-> FALSE,
      stream |-> "open"] : color \in BOOLEAN}

\* TerminalDisplay::new: `if supports_color { print!("ESC[?25l") }`
hide_cursor(sel) == IF sel.supports_color THEN [sel EXCEPT !.cursor = "hidden"] ELSE sel

\* Drop for TerminalDisplay: `if self.supports_color { print!("ESC[?25hESC[0m") }`
drop_display(sel) ==
    IF sel.supports_color THEN [sel EXCEPT !.cursor = "shown", !.cursor_show = TRUE] ELSE sel

\* Drop for CameraCapture: `self.camera.stop_stream()`
drop_camera(sel) == [sel EXCEPT !.stream = "stopped"]

\* std::process::exit(1): the process ends at once, and no destructor of any
\* task's locals is run
process_exit(sel) == sel

InitSelect ==
    /\ NoSession
    /\ NoCall
    /\ NoPair
    /\ NoChat
    /\ NoScreen
    /\ select \in InSelect
    /\ enqueued = <<>>
    /\ shown = <<>>

\* subscribe_loop: frame_tx.send((frame_data, width, height))
Forward(fr) ==
    /\ process.alive
    /\ Len(enqueued) < MaxForwarded
    /\ frame_ch' = Append(frame_ch, fr)
    /\ enqueued' = Append(enqueued, fr)
    /\ UNCHANGED <<connected_peers, rejected_peers, display, receiver, process, event, before,
                   broadcasts, forwarded, notSelect, select, shown>>

\* subscribe_loop: a RoomFull targeted at this process, std::process::exit(1)
TargetedRoomFull ==
    /\ process.alive
    /\ process' = Exited(1)
    /\ select' = process_exit(select)
    /\ UNCHANGED <<connected_peers, rejected_peers, frame_ch, display, receiver, event, before,
                   broadcasts, forwarded, notSelect, enqueued, shown>>

\* `_ = interval.tick() => {`
TickStart ==
    /\ process.alive
    /\ select_ready(select)
    /\ select.ticks < MaxSelectTicks
    /\ select' = [select EXCEPT !.pc = "tick", !.capturing = TRUE, !.ticks = @ + 1]
    /\ UNCHANGED <<sessionVars, notSelect, enqueued, shown>>

\* the body of the interval arm up to `sender.broadcast(..).await`, or to its
\* end when nothing is sent
TickBody(sends) ==
    /\ process.alive
    /\ select.pc = "tick"
    /\ select' = IF sends THEN [select EXCEPT !.pc = "send"]
                 ELSE [select EXCEPT !.pc = "wait", !.capturing = FALSE]
    /\ UNCHANGED <<sessionVars, notSelect, enqueued, shown>>

\* the broadcast returns and the arm ends
TickEnd ==
    /\ process.alive
    /\ select.pc = "send"
    /\ select' = [select EXCEPT !.pc = "wait", !.capturing = FALSE]
    /\ UNCHANGED <<sessionVars, notSelect, enqueued, shown>>

\* `Some((frame_data, width, height)) = frame_rx.recv() => {`, and the display
\* made from the first frame
RenderStart ==
    /\ process.alive
    /\ select_ready(select)
    /\ frame_ch # <<>>
    /\ frame_ch' = recv(frame_ch).rest
    /\ display' = IF display.made THEN display
                  ELSE [made |-> TRUE, width |-> recv(frame_ch).item[2],
                        height |-> recv(frame_ch).item[3]]
    /\ select' = [(IF display.made THEN select ELSE hide_cursor(select))
                      EXCEPT !.pc = IF display.made THEN "show" ELSE "new_display",
                             !.rendering = TRUE, !.held = recv(frame_ch).item]
    /\ UNCHANGED <<connected_peers, rejected_peers, receiver, process, event, before,
                   broadcasts, forwarded, notSelect, enqueued, shown>>

\* `tokio::time::sleep(100 ms).await` is over
RenderWake ==
    /\ process.alive
    /\ select.pc = "new_display"
    /\ select' = [select EXCEPT !.pc = "show"]
    /\ UNCHANGED <<sessionVars, notSelect, enqueued, shown>>

\* disp.show_frame(&frame_data), whose error is only printed
RenderShow ==
    /\ process.alive
    /\ select.pc = "show"
    /\ shown' = Append(shown, select.held)
    /\ select' = [select EXCEPT !.pc = "wait", !.rendering = FALSE, !.held = <<>>]
    /\ UNCHANGED <<sessionVars, notSelect, enqueued>>

NextSelect ==
    \/ \E fr \in Frames : Forward(fr)
    \/ TargetedRoomFull
    \/ TickStart
    \/ \E sends \in BOOLEAN : TickBody(sends)
    \/ TickEnd
    \/ RenderStart
    \/ RenderWake
    \/ RenderShow

SpecSelect == InitSelect /\ [][NextSelect]_vars

\* tokio::select! chooses at random among the arms that are ready, and an
\* await of main that can return does return
FairSelect ==
    /\ SF_vars(RenderStart)
    /\ SF_vars(TickStart)
    /\ WF_vars(\E sends \in BOOLEAN : TickBody(sends))
    /\ WF_vars(TickEnd)
    /\ WF_vars(RenderWake)
    /\ WF_vars(RenderShow)

SpecSelectFair == SpecSelect /\ FairSelect

(***************************************************************************)
(* C22: the capture tick and the render step never overlap: no state has a *)
(* capture and a render both in progress, and whenever main waits in       *)
(* select! the arm it ran before has run to its end.                       *)
(***************************************************************************)
C22_CaptureAndRenderNeverOverlap ==
    select # <<>> =>
        /\ ~(select.capturing /\ select.rendering)
        /\ select.pc = "wait" => (~select.capturing /\ ~select.rendering)
        /\ select.capturing <=> select.pc \in {"tick", "send"}
        /\ select.rendering <=> select.pc \in {"new_display", "show"}

\* main sleeps in its render arm after a tick, with a further frame queued
C22_Witness ==
    /\ select # <<>>
    /\ select.rendering /\ select.pc = "new_display"
    /\ select.ticks > 0 /\ select.ticks < MaxSelectTicks
    /\ frame_ch # <<>>

\* a sequence that begins another
IsPrefix(short, long) ==
    /\ Len(short) <= Len(long)
    /\ \A i \in 1..Len(short) : short[i] = long[i]

(***************************************************************************)
(* C23 as stated: every frame put on the frame channel is in the end       *)
(* passed to show_frame, in the order of the channel, one frame a render   *)
(* step.                                                                   *)
(***************************************************************************)
C23_EveryFrameShownInOrder ==
    /\ [](IsPrefix(shown, enqueued))
    /\ \A i \in 1..MaxForwarded : (Len(enqueued) >= i) ~> (Len(shown) >= i)

(***************************************************************************)
(* C23, amended: the frames shown are always the first frames put on the   *)
(* channel, in their order, those not yet shown wait on the channel or in  *)
(* the render arm, and every frame put on the channel is in the end shown  *)
(* unless the process exits first.                                         *)
(***************************************************************************)
C23_EveryFrameShownInOrderUnlessExit ==
    /\ [](IsPrefix(shown, enqueued))
    /\ [](select # <<>> =>
            enqueued = shown \o (IF select.rendering THEN <<select.held>> ELSE <<>>)
                             \o frame_ch)
    /\ \A i \in 1..MaxForwarded :
          (Len(enqueued) >= i) ~> (Len(shown) >= i \/ ~process.alive)

\* three frames were forwarded while none was shown, and all three are shown
C23_Witness ==
    /\ Len(shown) = MaxForwarded
    /\ shown = enqueued
    /\ shown[1] # shown[2]
    /\ select.ticks = MaxSelectTicks
    /\ process.alive

(***************************************************************************)
(* The chat program (chat.rs): the input thread reads lines from stdin and *)
(* sends them to main over mpsc::channel(1); main broadcasts each line;    *)
(* subscribe_loop shows what the gossip receiver is given.  Message has    *)
(* the to_vec and from_bytes of main.rs, with the bodies AboutMe and       *)
(* Message.                                                                *)
(***************************************************************************)
TextMessage(from, text) == [tag |-> "Message", from |-> from, text |-> text]

\* lines as read_line leaves them in the buffer, character by character
Lines == {<<"h", "i", "\n">>, <<" ", "y", "o", " ", "\n">>, <<" ", "\n">>}
Whitespace == {" ", "\n"}

\* str::trim
RECURSIVE trim(_)
trim(text) ==
    IF text = <<>> THEN <<>>
    ELSE IF text[1] \in Whitespace THEN trim(Tail(text))
    ELSE IF text[Len(text)] \in Whitespace THEN trim(SubSeq(text, 1, Len(text) - 1))
    ELSE text

\* what the gossip receiver of the chat is given
ChatEvents ==
    {[type |-> "Received", content |-> c] :
        c \in {Garbage, to_vec(AboutMe(1)), to_vec(TextMessage(1, <<"h", "i">>))}}
    \cup {[type |-> "Other"]}

\* faulty variant: a channel that always has room
has_room_always(ch) == TRUE

\* mpsc::channel(1): blocking_send returns once the channel holds no other line
has_room(ch) == Len(ch) < 1

InitChat ==
    /\ NoSession /\ NoCall /\ NoPair /\ NoSelect /\ NoScreen
    /\ chat = [input_pc |-> "read_line", buffer |-> <<>>, main_pc |-> "recv", text |-> <<>>,
               main_alive |-> TRUE, receiving |-> TRUE, handled |-> 0]
    /\ line_ch = <<>>
    /\ typed = <<>>
    /\ taken = <<>>
    /\ said = <<>>
    /\ arrived = <<>>
    /\ ui = <<>>

\* input_loop: std::io::stdin().read_line(&mut buffer)
ReadLine(line) ==
    /\ chat.input_pc = "read_line"
    /\ Len(typed) < MaxLines
    /\ typed' = Append(typed, line)
    /\ chat' = [chat EXCEPT !.input_pc = "blocking_send", !.buffer = line]
    /\ UNCHANGED <<notChat, line_ch, taken, said, arrived, ui>>

\* input_loop: line_tx.blocking_send(buffer.clone())?, then buffer.clear();
\* the send fails and the thread ends when main has dropped line_rx
BlockingSend ==
    /\ chat.input_pc = "blocking_send"
    /\ IF ~chat.main_alive
          THEN /\ chat' = [chat EXCEPT !.input_pc = "returned"]
               /\ UNCHANGED line_ch
          ELSE /\ has_room(line_ch)
               /\ line_ch' = Append(line_ch, chat.buffer)
               /\ chat' = [chat EXCEPT !.input_pc = "read_line", !.buffer = <<>>]
    /\ UNCHANGED <<notChat, typed, taken, said, arrived, ui>>

\* main: `while let Some(text) = line_rx.recv().await`, `let text = text.trim()`
RecvLine ==
    /\ chat.main_alive
    /\ chat.main_pc = "recv"
    /\ line_ch # <<>>
    /\ line_ch' = Tail(line_ch)
    /\ taken' = Append(taken, Head(line_ch))
    /\ chat' = [chat EXCEPT !.main_pc = "broadcast", !.text = trim(Head(line_ch))]
    /\ UNCHANGED <<notChat, typed, said, arrived, ui>>

\* main: the body of the loop: the text is broadcast unless it is empty, with
\* `?` on the result, and shown as "you: .."
BroadcastLine(ok) ==
    /\ chat.main_alive
    /\ chat.main_pc = "broadcast"
    /\ chat.text = <<>> => ok
    /\ said' = IF chat.text # <<>> THEN Append(said, chat.text) ELSE said
    /\ IF chat.text # <<>> /\ question_mark(ok)
          THEN /\ chat' = [chat EXCEPT !.main_alive = FALSE, !.main_pc = "returned"]
               /\ UNCHANGED ui
          ELSE /\ chat' = [chat EXCEPT !.main_pc = "recv", !.text = <<>>]
               /\ ui' = Append(ui, <<"you", chat.text>>)
    /\ UNCHANGED <<notChat, line_ch, typed, taken, arrived>>

\* the gossip receiver is given an event
Arrive(ev) ==
    /\ Len(arrived) < MaxArrivals
    /\ arrived' = Append(arrived, ev)
    /\ UNCHANGED <<notChat, chat, line_ch, typed, taken, said, ui>>

\* subscribe_loop: one turn of `while let Some(event) = receiver.try_next().await?`
\* with `Message::from_bytes(&msg.content)?.body`
HandleChatEvent ==
    /\ chat.main_alive
    /\ chat.receiving
    /\ chat.handled < Len(arrived)
    /\ LET ev == arrived[chat.handled + 1]
           message == IF ev.type = "Received" THEN from_bytes(ev.content) ELSE [ok |-> TRUE]
       IN  /\ chat' = [chat EXCEPT !.handled = @ + 1,
                                   !.receiving = ~question_mark(message.ok)]
           /\ ui' = IF ev.type # "Received" \/ ~message.ok THEN ui
                    ELSE IF message.body.tag = "AboutMe"
                        THEN Append(ui, <<"joined", message.body.from>>)
                    ELSE Append(ui, <<"peer", message.body.from, message.body.text>>)
    /\ UNCHANGED <<notChat, line_ch, typed, taken, said, arrived>>

NextChat ==
    \/ \E line \in Lines : ReadLine(line)
    \/ BlockingSend
    \/ RecvLine
    \/ \E ok \in BOOLEAN : BroadcastLine(ok)
    \/ \E ev \in ChatEvents : Arrive(ev)
    \/ HandleChatEvent

SpecChat == InitChat /\ [][NextChat]_vars

\* the texts main broadcasts for a sequence of lines
NotEmpty(text) == text # <<>>
Texts(lines) == SelectSeq([i \in 1..Len(lines) |-> trim(lines[i])], NotEmpty)

\* the line the input thread holds after read_line and before its send returns
HeldLine == IF chat.input_pc \in {"blocking_send", "returned"} THEN <<chat.buffer>> ELSE <<>>

(***************************************************************************)
(* C24: the channel between the input thread and main never holds more     *)
(* than one line; the lines typed are those main has received, the one in  *)
(* the channel and the one the input thread is sending, in this order, so  *)
(* that no line is read before the send of the line before it returned;    *)
(* and the texts broadcast are those of the lines received, in their       *)
(* order.                                                                  *)
(***************************************************************************)
C24_OneLineQueuedInOrder ==
    chat # <<>> =>
        /\ Len(line_ch) <= 1
        /\ typed = taken \o line_ch \o HeldLine
        /\ said = Texts(IF chat.main_pc = "broadcast"
                            THEN SubSeq(taken, 1, Len(taken) - 1) ELSE taken)

\* main broadcasts the first line, the second waits in the channel and the
\* input thread is blocked sending the third
C24_Witness ==
    /\ chat # <<>>
    /\ chat.main_pc = "broadcast" /\ chat.text # <<>>
    /\ Len(line_ch) = 1
    /\ chat.input_pc = "blocking_send"
    /\ Len(typed) = 3 /\ typed[1] # typed[2] /\ typed[2] # typed[3]

\* what subscribe_loop of the chat shows for the events it is given
RECURSIVE Shown(_)
Shown(events) ==
    IF events = <<>> THEN <<>>
    ELSE LET ev == events[Len(events)]
             rest == Shown(SubSeq(events, 1, Len(events) - 1))
         IN  IF ev.type # "Received" \/ ~ev.content.json THEN rest
             ELSE IF ev.content.body.tag = "AboutMe"
                 THEN Append(rest, <<"joined", ev.content.body.from>>)
             ELSE Append(rest, <<"peer", ev.content.body.from, ev.content.body.text>>)

FromPeers(entry) == entry[1] # "you"

(***************************************************************************)
(* C27: in the chat a malformed message is skipped and reception goes on:  *)
(* subscribe_loop is still receiving after every event it has handled, and *)
(* it has shown every well-formed message among them.                      *)
(***************************************************************************)
C27_ChatSkipsMalformed ==
    chat # <<>> =>
        /\ chat.main_alive => chat.receiving
        /\ SelectSeq(ui, FromPeers) = Shown(SubSeq(arrived, 1, chat.handled))

(***************************************************************************)
(* TerminalDisplay (display.rs): its construction from the size of the     *)
(* first frame, and what show_frame writes before the rows of the picture. *)
(* The terminal changes size at any time.  ESC stands for the byte 1B.     *)
(***************************************************************************)
\* terminal sizes (columns, rows); the second is what term_size() falls back on
TermSizes == {<<80, 24>>, <<120, 40>>, <<40, 12>>}

\* `(a as f32 / b as f32).ceil() as u32` for 0 < a and 0 < b
ceil_div(a, b) == (a + b - 1) \div b
max(a, b) == IF a >= b THEN a ELSE b
saturating_sub(a, b) == IF a >= b THEN a - b ELSE 0

\* calc_layout for a display told the terminal size; TerminalDisplay::new
\* computes the same fields the same way
calc_layout(d, size) ==
    LET max_w == saturating_sub(size[1], 2)
        max_h == saturating_sub(size[2], 3)
        scale == max(max(ceil_div(d.cam_w, max_w), ceil_div(d.cam_h, max_h * 2)), 2)
        disp_w == max(d.cam_w \div scale, 1)
        disp_h == max(d.cam_h \div (scale * 2), 1)
    IN  [d EXCEPT !.term_w = size[1], !.term_h = size[2], !.scale = scale,
                  !.disp_w = disp_w, !.disp_h = disp_h,
                  !.h_pad = saturating_sub(size[1], disp_w) \div 2,
                  !.v_pad = saturating_sub(saturating_sub(size[2], disp_h), 2) \div 2]

\* TerminalDisplay::new(cam_w, cam_h) in a terminal of the given size
TerminalDisplayNew(cam_w, cam_h, size, supports_color) ==
    calc_layout([cam_w |-> cam_w, cam_h |-> cam_h, term_w |-> 0, term_h |-> 0, scale |-> 0,
                 disp_w |-> 0, disp_h |-> 0, h_pad |-> 0, v_pad |-> 0, redraw |-> TRUE,
                 supports_color |-> supports_color], size)

\* render_blocks: what is pushed to buf before the padding and the rows
repaint_head(d) ==
    IF d.redraw
        THEN IF d.supports_color THEN <<"ESC[2J", "ESC[H">>
             ELSE [i \in 1..(2 * d.term_h) |-> IF i <= d.term_h THEN "\n" ELSE "BS"]
    ELSE IF d.supports_color THEN <<"ESC[H">>
    ELSE <<>>

InitScreen ==
    /\ NoSession /\ NoCall /\ NoPair /\ NoSelect /\ NoChat
    /\ term \in TermSizes
    /\ disp \in {TerminalDisplayNew(fr[2], fr[3], term, color) :
                    fr \in Frames, color \in BOOLEAN}
    /\ written = <<>>
    /\ call = [n |-> 0, resized |-> FALSE, size |-> term]

\* the terminal gets another size
Resize(size) ==
    /\ size # term
    /\ term' = size
    /\ UNCHANGED <<notScreen, disp, written, call>>

\* show_frame(frame_bytes): term_size(), calc_layout on a change, render_blocks
ShowFrame ==
    /\ call.n < MaxShows
    /\ LET resized == term[1] # disp.term_w \/ term[2] # disp.term_h
           laid == IF resized THEN [calc_layout(disp, term) EXCEPT !.redraw = TRUE]
                   ELSE disp
       IN  /\ written' = repaint_head(laid)
           /\ disp' = [laid EXCEPT !.redraw = FALSE]
           /\ call' = [n |-> call.n + 1, resized |-> resized, size |-> term]
    /\ UNCHANGED <<notScreen, term>>

NextScreen ==
    \/ \E size \in TermSizes : Resize(size)
    \/ ShowFrame

SpecScreen == InitScreen /\ [][NextScreen]_vars

\* what the output does to the screen
Clears(text) ==
    \/ \E i \in 1..Len(text) : text[i] = "ESC[2J"
    \/ /\ disp.term_h > 0
       /\ Len(text) >= disp.term_h
       /\ \A i \in 1..disp.term_h : text[i] = "\n"
Homes(text) == \E i \in 1..Len(text) : text[i] = "ESC[H"

(***************************************************************************)
(* C25: show_frame clears the screen on the first frame and on the first   *)
(* frame after the terminal has changed size, with the layout computed for *)
(* the size the terminal has then; every other show_frame call clears      *)
(* nothing and homes the cursor.                                           *)
(***************************************************************************)
C25_RepaintOnFirstFrameAndResize ==
    (disp # <<>> /\ call.n > 0) =>
        IF call.n = 1 \/ call.resized
            THEN /\ Clears(written)
                 /\ disp = [calc_layout(disp, call.size) EXCEPT !.redraw = FALSE]
            ELSE ~Clears(written) /\ Homes(written)

(***************************************************************************)
(* C26: whenever the process has ended by a step of its own after the      *)
(* display was made, the cursor-show sequence has been written and the     *)
(* capture stream has been stopped: the display and the camera are as      *)
(* their destructors leave them.                                           *)
(***************************************************************************)
C26_TeardownOnEveryExit ==
    (select # <<>> /\ ~process.alive /\ display.made) =>
        /\ select.cursor_show
        /\ select.stream = "stopped"
        /\ select = drop_camera(drop_display(select))

\* the message handled last is handled once more, as the next event
SecondDelivery(tags) ==
    /\ WellFormed
    /\ Body.tag \in tags
    /\ Sender \in connected_peers
    /\ Receive(event)

\* a RoomFull targeted at the peer is among the envelopes handed to broadcast
RoomFullSentTo(sent, peer) ==
    \E i \in 1..Len(sent) : sent[i].msg.tag = "RoomFull" /\ sent[i].msg.target = peer

(***************************************************************************)
(* C29: when an AboutMe, a VideoFrame or a KeepAlive of the Connected peer *)
(* is delivered a second time, the Connected and Rejected sets stay as the *)
(* first delivery left them and no RoomFull targeted at that peer is       *)
(* handed to broadcast.                                                    *)
(***************************************************************************)
C29_DuplicateDeliveryIdempotent ==
    [][SecondDelivery({"AboutMe", "VideoFrame", "KeepAlive"}) =>
          /\ connected_peers' = connected_peers
          /\ rejected_peers' = rejected_peers
          /\ ~RoomFullSentTo(broadcasts', Sender)]_vars

\* the change gate of the tick arm: `frames_differ(&candidate, last, 1)` with a
\* camera, `frames_differ(&frame_data, last, 5)` without one
PassesGate(candidate, last) ==
    LET differ == frames_differ(candidate, last, IF camera.present THEN 1 ELSE 5)
    IN  ~differ.panicked /\ differ.value

\* one turn of the interval arm of main, with a camera or without one
IntervalTick ==
    \/ \E reads \in ReadSeqs, ok \in BOOLEAN : CaptureTick(reads, ok)
    \/ \E ok \in BOOLEAN : PlaceholderTick(ok)

\* the frames of the VideoFrame envelopes among those handed to broadcast
FramesSent(sent) ==
    {sent[i].msg.frame_data : i \in {j \in 1..Len(sent) : sent[j].msg.tag = "VideoFrame"}}

(***************************************************************************)
(* C30: every VideoFrame main broadcasts has passed the change gate: it    *)
(* differs, by frames_differ, from the frame kept in last_frame and from   *)
(* the frame broadcast by the step before, unless no turn of the interval  *)
(* arm has sent it; so a source that does not change is broadcast once.    *)
(***************************************************************************)
C30_EveryBroadcastPassedGate ==
    [][\A candidate \in FramesSent(broadcasts') :
          \/ /\ last_frame.some => PassesGate(candidate, last_frame.bytes)
             /\ \A sent \in FramesSent(broadcasts) : PassesGate(candidate, sent)
          \/ ~IntervalTick]_vars

(***************************************************************************)
(* Three processes on one topic.  Member 0 has opened the room, members 1  *)
(* and 2 join it in that order and announce themselves when they have      *)
(* joined.  A broadcast is handed to each of the other members; an         *)
(* envelope on its way is delivered, delivered and kept (to be delivered   *)
(* again) or lost, in any order.  Member n names itself my_node_id and     *)
(* the member k places after it k.  Frames are not rendered here.          *)
(***************************************************************************)
Members == {0, 1, 2}
Founders == {0, 1}

\* the name member p gives to the node that member n names id
NameAt(p, n, id) == (n + id + Cardinality(Members) - p) % Cardinality(Members)
Carried(p, n, body) ==
    IF body.tag = "RoomFull"
        THEN [body EXCEPT !.from = NameAt(p, n, @), !.target = NameAt(p, n, @)]
        ELSE [body EXCEPT !.from = NameAt(p, n, @)]

NewMember ==
    [connected_peers |-> {}, rejected_peers |-> {}, process |-> Alive,
     main_pc |-> "announce", keepalives |-> 0, frames |-> 0, faults |-> 0]

\* the envelopes on their way to a process, no more than MaxCopies of each:
\* the others are lost
Capped(bag) ==
    [b \in DOMAIN bag |-> IF bag[b] > MaxCopies THEN MaxCopies ELSE bag[b]]

\* sender.broadcast(..) of member n: each envelope is on its way to every
\* other member that runs
Gossip(n, bodies, running, flying) ==
    [p \in Members |->
        IF p = n \/ ~running[p] THEN flying[p]
        ELSE Capped(flying[p] (+) [b \in {Carried(p, n, bodies[i]) : i \in DOMAIN bodies} |->
                        Cardinality({i \in DOMAIN bodies : Carried(p, n, bodies[i]) = b})])]

Running == [p \in Members |-> room[p].process.alive]

\* what the room has done so far: keepalives and frames sent, envelopes lost
\* or delivered twice
Total(field) == room[0][field] + room[1][field] + room[2][field]

MemberAnnounce(n) ==
    /\ room[n].process.alive
    /\ room[n].main_pc = "announce"
    /\ \A m \in Members : m < n => room[m].main_pc = "loop"
    /\ net' = Gossip(n, <<AboutMe(my_node_id)>>, Running, net)
    /\ room' = [room EXCEPT ![n].main_pc = "loop"]
    /\ UNCHANGED <<sessionVars, captureVars, callVars, laterVars>>

MemberKeepAlive(n) ==
    /\ room[n].process.alive
    /\ room[n].main_pc = "loop"
    /\ Total("keepalives") + Total("frames") < MaxRoomSends
    /\ net' = Gossip(n, <<KeepAlive(my_node_id)>>, Running, net)
    /\ room' = [room EXCEPT ![n].keepalives = @ + 1]
    /\ UNCHANGED <<sessionVars, captureVars, callVars, laterVars>>

\* the tick arm sends a frame
MemberTick(n) ==
    /\ room[n].process.alive
    /\ room[n].main_pc = "loop"
    /\ Total("keepalives") + Total("frames") < MaxRoomSends
    /\ \E reduced \in {CHOOSE fr \in SentFrames : TRUE} :
          net' = Gossip(n, <<OwnFrame(reduced)>>, Running, net)
    /\ room' = [room EXCEPT ![n].frames = @ + 1]
    /\ UNCHANGED <<sessionVars, captureVars, callVars, laterVars>>

\* subscribe_loop of member n handles an envelope on its way to it, which is
\* kept on its way when it is to be delivered once more; the envelopes to a
\* process that has exited are gone
MemberReceive(n, body, again) ==
    /\ room[n].process.alive
    /\ room[n].main_pc = "loop"
    /\ BagIn(body, net[n])
    /\ again => Total("faults") < MaxFaults
    /\ \E eff \in {HandleEvent(room[n].connected_peers, room[n].rejected_peers,
                               [type |-> "Received", content |-> to_vec(body)])} :
       \E flying \in {[net EXCEPT ![n] = IF eff.exit THEN EmptyBag
                                        ELSE IF again THEN @
                                        ELSE @ (-) SetToBag({body})]} :
           /\ net' = Gossip(n, eff.out, [Running EXCEPT ![n] = ~eff.exit], flying)
           /\ room' = [room EXCEPT
                          ![n].connected_peers = eff.connected,
                          ![n].rejected_peers = eff.rejected,
                          ![n].process = IF eff.exit THEN Exited(1) ELSE @,
                          ![n].faults = IF again THEN @ + 1 ELSE @]
    /\ UNCHANGED <<sessionVars, captureVars, callVars, laterVars>>

\* an envelope on its way to member n is lost
Lose(n, body) ==
    /\ BagIn(body, net[n])
    /\ Total("faults") < MaxFaults
    /\ net' = [net EXCEPT ![n] = @ (-) SetToBag({body})]
    /\ room' = [room EXCEPT ![n].faults = @ + 1]
    /\ UNCHANGED <<sessionVars, captureVars, callVars, laterVars>>

InitRoom ==
    /\ NoSession
    /\ NoCall
    /\ NoLater
    /\ room = [n \in Members |-> NewMember]
    /\ net = [n \in Members |-> EmptyBag]

NextRoom ==
    \E n \in Members :
        \/ MemberAnnounce(n)
        \/ MemberKeepAlive(n)
        \/ MemberTick(n)
        \/ \E body \in BagToSet(net[n]), again \in BOOLEAN : MemberReceive(n, body, again)
        \/ \E body \in BagToSet(net[n]) : Lose(n, body)

SpecRoom == InitRoom /\ [][NextRoom]_vars

\* member a holds member b as Connected, as Rejected
HoldsConnected(a, b) == NameAt(a, b, my_node_id) \in room[a].connected_peers
HoldsRejected(a, b) == NameAt(a, b, my_node_id) \in room[a].rejected_peers
\* a RoomFull targeted at member p is on its way to it
ToldRoomFull(p) ==
    \E b \in BagToSet(net[p]) : b.tag = "RoomFull" /\ b.target = my_node_id

(***************************************************************************)
(* C28: with three processes on one topic and envelopes delivered in any   *)
(* order, lost or delivered twice, no process holds as Connected a process *)
(* that holds it as Rejected, and no RoomFull targeted at one of the first *)
(* two participants of the room is sent to it.                             *)
(***************************************************************************)
C28_AdmissionConsistentAcrossNodes ==
    (room # <<>> /\ DOMAIN room = Members) =>
        /\ \A a, b \in Members : ~(a # b /\ HoldsConnected(a, b) /\ HoldsRejected(b, a))
        /\ \A p \in Founders : ~ToldRoomFull(p)

(***************************************************************************)
(* C31: last_frame is the most recent frame whose broadcast succeeded: a   *)
(* turn of the interval arm whose VideoFrame broadcast fails leaves        *)
(* last_frame as it was, and one whose broadcast succeeds leaves the frame *)
(* it sent in last_frame.                                                  *)
(***************************************************************************)
C31_BaselineIsLastFrameTransmitted ==
    [][\A i \in 1..Len(broadcasts') :
          \/ broadcasts'[i].msg.tag # "VideoFrame"
          \/ IF broadcasts'[i].ok
                 THEN last_frame' = SomeFrame(broadcasts'[i].msg.frame_data)
                 ELSE last_frame' = last_frame
          \/ ~IntervalTick]_vars

(***************************************************************************)
(* render_blocks (display.rs 115-178): the padding and the rows of cells   *)
(* it writes after the head, as a sequence of pieces: a space, a newline,  *)
(* the pair of colour escapes ESC[38;2;r;g;bm ESC[48;2;r;g;bm ("sgr"), the *)
(* upper-half-block glyph, a brightness character, and ESC[0m ("reset").   *)
(* A glyph carries the cell it was written for.  A colour is <<r, g, b>>.  *)
(***************************************************************************)
White == <<255, 255, 255>>
min(a, b) == IF a <= b THEN a ELSE b

\* the frames rendered: every pixel black or white, those that no cell reads
\* black; and a frame that ends before its last rows
Pictures ==
    LET read == {q \in (0..(PictureWidth - 1)) \X (0..(PictureHeight - 1)) :
                    q[1] % 2 = 0 /\ q[2] % 2 = 0}
        pixel(i) == <<((i - 1) \div 3) % PictureWidth, ((i - 1) \div 3) \div PictureWidth>>
    IN  {[i \in 1..(PictureWidth * PictureHeight * 3) |->
             IF pixel(i) \in lit THEN 255 ELSE 0] : lit \in SUBSET read}
        \cup {[i \in 1..(PictureWidth * PictureHeight * 2) |-> 255]}

\* top_idx and bot_idx of the cell (x, y)
cell_indices(d, x, y) ==
    LET src_x == min(x * d.scale, d.cam_w - 1)
        src_y_top == min(y * d.scale * 2, d.cam_h - 1)
        src_y_bot == min(y * d.scale * 2 + d.scale, d.cam_h - 1)
    IN  [top_idx |-> (src_y_top * d.cam_w + src_x) * 3,
         bot_idx |-> (src_y_bot * d.cam_w + src_x) * 3]

\* `top_idx + 2 < frame_bytes.len() && bot_idx + 2 < frame_bytes.len()`
cell_in_frame(d, frame_bytes, x, y) ==
    /\ cell_indices(d, x, y).top_idx + 2 < Len(frame_bytes)
    /\ cell_indices(d, x, y).bot_idx + 2 < Len(frame_bytes)

\* (r1, g1, b1) and (r2, g2, b2) of the cell (x, y)
cell_colors(d, frame_bytes, x, y) ==
    LET idx == cell_indices(d, x, y)
    IN  [top |-> <<frame_bytes[idx.top_idx + 1], frame_bytes[idx.top_idx + 2],
                   frame_bytes[idx.top_idx + 3]>>,
         bot |-> <<frame_bytes[idx.bot_idx + 1], frame_bytes[idx.bot_idx + 2],
                   frame_bytes[idx.bot_idx + 3]>>]

\* `match brightness`, for a terminal without colour
brightness_char(rgb) ==
    LET brightness == (rgb[1] + rgb[2] + rgb[3]) \div 3
    IN  IF brightness <= 51 THEN " "
        ELSE IF brightness <= 102 THEN "."
        ELSE IF brightness <= 153 THEN ":"
        ELSE IF brightness <= 204 THEN "#"
        ELSE "@"

\* `for x in 0..self.disp_w`, from the cell x on
RECURSIVE render_cells(_, _, _, _, _, _)
render_cells(d, frame_bytes, y, x, last_top, last_bot) ==
    IF x >= d.disp_w THEN <<>>
    ELSE IF ~cell_in_frame(d, frame_bytes, x, y)
        THEN <<[kind |-> "space"]>> \o render_cells(d, frame_bytes, y, x + 1, last_top, last_bot)
    ELSE LET c == cell_colors(d, frame_bytes, x, y) IN
        IF ~d.supports_color
            THEN <<[kind |-> "char", char |-> brightness_char(c.top)]>>
                 \o render_cells(d, frame_bytes, y, x + 1, last_top, last_bot)
        ELSE IF c.top # last_top \/ c.bot # last_bot
            THEN <<[kind |-> "sgr", fg |-> c.top, bg |-> c.bot],
                   [kind |-> "glyph", x |-> x, y |-> y]>>
                 \o render_cells(d, frame_bytes, y, x + 1, c.top, c.bot)
        ELSE <<[kind |-> "glyph", x |-> x, y |-> y]>>
             \o render_cells(d, frame_bytes, y, x + 1, last_top, last_bot)

\* `for y in 0..self.disp_h`, from the row y on: last_top and last_bot are
\* white when a row starts
RECURSIVE render_rows(_, _, _)
render_rows(d, frame_bytes, y) ==
    IF y >= d.disp_h THEN <<>>
    ELSE [i \in 1..d.h_pad |-> [kind |-> "space"]]
         \o render_cells(d, frame_bytes, y, 0, White, White)
         \o (IF d.supports_color THEN <<[kind |-> "reset"], [kind |-> "newline"]>>
             ELSE <<[kind |-> "newline"]>>)
         \o render_rows(d, frame_bytes, y + 1)

\* render_blocks after the head: v_pad newlines and the rows
render_body(d, frame_bytes) ==
    [i \in 1..d.v_pad |-> [kind |-> "newline"]] \o render_rows(d, frame_bytes, 0)

\* a display for frames of PictureWidth x PictureHeight
InitGlyphs ==
    /\ NoSession /\ NoCall /\ NoPair /\ NoSelect /\ NoChat
    /\ term \in TermSizes
    /\ disp \in {TerminalDisplayNew(PictureWidth, PictureHeight, term, color) :
                    color \in BOOLEAN}
    /\ written = <<>>
    /\ call = [n |-> 0, resized |-> FALSE, size |-> term, frame |-> <<>>, body |-> <<>>]

\* show_frame(frame_bytes) with all that render_blocks writes
ShowPicture(frame_bytes) ==
    /\ call.n < MaxPictures
    /\ LET resized == term[1] # disp.term_w \/ term[2] # disp.term_h IN
       \E laid \in {IF resized THEN [calc_layout(disp, term) EXCEPT !.redraw = TRUE]
                    ELSE disp} :
           /\ written' = repaint_head(laid)
           /\ disp' = [laid EXCEPT !.redraw = FALSE]
           /\ call' = [n |-> call.n + 1, resized |-> resized, size |-> term,
                       frame |-> frame_bytes, body |-> render_body(laid, frame_bytes)]
    /\ UNCHANGED <<notScreen, term>>

NextGlyphs ==
    \/ \E size \in TermSizes : Resize(size)
    \/ \E frame_bytes \in Pictures : ShowPicture(frame_bytes)

SpecGlyphs == InitGlyphs /\ [][NextGlyphs]_vars

\* the colours the terminal draws with when it comes to piece i of the text:
\* those of the last sgr before it, or its own (<<>>, no RGB colour) at the
\* start and after a reset
ActiveColors(text, i) ==
    LET set == {j \in 1..(i - 1) : text[j].kind \in {"sgr", "reset"}}
        j == CHOOSE k \in set : \A l \in set : l <= k
    IN  IF set = {} \/ text[j].kind = "reset" THEN [top |-> <<>>, bot |-> <<>>]
        ELSE [top |-> text[j].fg, bot |-> text[j].bg]

(***************************************************************************)
(* C32: with colour, every half-block glyph is written while the           *)
(* terminal's foreground and background colours are the top and bottom     *)
(* colours computed for its cell: for every cell of every row, the first   *)
(* cell of a row after the reset included, and for every frame.            *)
(***************************************************************************)
C32_GlyphsDrawnInCellColors ==
    (disp # <<>> /\ disp.supports_color /\ call.n > 0) =>
        \A i \in 1..Len(call.body) :
            call.body[i].kind = "glyph" =>
                ActiveColors(call.body, i)
                    = cell_colors(disp, call.frame, call.body[i].x, call.body[i].y)

=============================================================================
